---- MODULE Spec2Model ----
(***************************************************************************)
(* PABLO ParaTree (bitpit): a distributed linear quadtree.  The model is   *)
(* two-dimensional (dim = 2), without periodic faces.  The state of all    *)
(* NProc ranks is held together: a per-rank field of the class is a        *)
(* function over Ranks, a field that every rank computes from the same     *)
(* collective (all-gather, all-reduce) is held once.                       *)
(*                                                                         *)
(* ParaTree.cpp is the source of the facade.  LocalTree, Octant, the       *)
(* Morton codec and privateLoadBalance are not part of the sources at      *)
(* hand; the operators that stand for them follow the design document and  *)
(* the call sites in ParaTree.cpp and are marked "design document".        *)
(***************************************************************************)
EXTENDS Integers, Sequences, FiniteSets, TLC

\* ------------------------------------------------------------------ bounds
NProc == 3          \* number of MPI ranks
MaxLevel == 3       \* deepest refinement level of the model (MAX_LEVEL)
MaxOctants == 7     \* cap on the global number of octants
MaxOctantsDeep == 10 \* the same cap where only markers and adapt act
MaxSets == 1        \* cap on the accepted marker / balance settings
MaxDumps == 1       \* cap on the snapshots taken in one run
MaxBalances == 2    \* most load balances in the partitioner explorations
MaxRebuilds == 2    \* most halo rebuilds in the halo explorations
MaxOnes == 2        \* most weights equal to 1 in a weight vector
MaxLevelsUp == 1    \* most levels above the depth kept compact
MaxLayers == 3      \* largest halo width explored

Ranks == 0 .. (NProc - 1)

\* ----------------------------------------------------------- enumerations
OP_INIT == "init"
OP_ADAPT_MAPPED == "adapt_mapped"
OP_ADAPT_UNMAPPED == "adapt_unmapped"
OP_LOADBALANCE == "loadbalance"
OP_LOADBALANCE_FIRST == "loadbalance_first"
OP_PRE_ADAPT == "pre_adapt"

\* ------------------------------------------------------------- arithmetic
Max(a, b) == IF a > b THEN a ELSE b
Min(a, b) == IF a < b THEN a ELSE b

\* uint64_t arithmetic of the global indices, kept modulo a power of two
\* far above every index of the model so that 0 - 1 wraps to the top value
U64 == 2^20
Wrap64(v) == v % U64

\* uint32_t arithmetic of the partition sizes, same convention
U32 == 2^16
Wrap32(v) == v % U32

\* the value v under the name bound by F: v is computed once
With(v, F(_)) == F(v)

\* the sequence s with entry k replaced by v
Put(s, k, v) == [j \in 1 .. Len(s) |-> IF j = k THEN v ELSE s[j]]

RECURSIVE SumSeq(_)
SumSeq(s) == IF s = <<>> THEN 0 ELSE Head(s) + SumSeq(Tail(s))

RECURSIVE SortSet(_)
SortSet(S) ==
    IF S = {} THEN <<>>
    ELSE LET m == CHOOSE v \in S : \A w \in S : v <= w
         IN <<m>> \o SortSet(S \ {m})

SeqRange(s) == {s[i] : i \in 1 .. Len(s)}

\* ------------------------------------------------------ octants (Octant)
Side(l) == 2^(MaxLevel - l)
MaxLength == 2^MaxLevel

Octant(l, x, y) ==
    [level |-> l, x |-> x, y |-> y, marker |-> 0, balance |-> TRUE,
     newR |-> FALSE, newC |-> FALSE, pbound |-> {}, layer |-> -1]

\* bit interleaving of the anchor, x in the low bit
RECURSIVE computeMorton(_, _)
computeMorton(x, y) ==
    IF x = 0 /\ y = 0 THEN 0
    ELSE (x % 2) + 2 * (y % 2) + 4 * computeMorton(x \div 2, y \div 2)

getMorton(o) == computeMorton(o.x, o.y)
computeLastDescMorton(o) == getMorton(o) + Side(o.level) * Side(o.level) - 1

\* the children of an octant in Morton order
buildChildren(o) ==
    [k \in 1 .. 4 |->
        [level |-> o.level + 1,
         x |-> o.x + ((k - 1) % 2) * Side(o.level + 1),
         y |-> o.y + ((k - 1) \div 2) * Side(o.level + 1),
         marker |-> o.marker - 1, balance |-> o.balance,
         newR |-> TRUE, newC |-> FALSE, pbound |-> {}, layer |-> -1]]

isFirstChild(o) ==
    /\ o.level > 0
    /\ o.x % Side(o.level - 1) = 0
    /\ o.y % Side(o.level - 1) = 0

SameFamily(a, b) ==
    /\ a.level = b.level
    /\ a.level > 0
    /\ a.x \div Side(a.level - 1) = b.x \div Side(a.level - 1)
    /\ a.y \div Side(a.level - 1) = b.y \div Side(a.level - 1)

\* position of an octant in its family, 0 .. 3
ChildIndex(o) ==
    ((o.x \div Side(o.level)) % 2) + 2 * ((o.y \div Side(o.level)) % 2)

\* --------------------------------------------------------------- geometry
Covers(o, ux, uy) ==
    /\ o.x <= ux /\ ux < o.x + Side(o.level)
    /\ o.y <= uy /\ uy < o.y + Side(o.level)

OverlapX(a, b) == a.x < b.x + Side(b.level) /\ b.x < a.x + Side(a.level)
OverlapY(a, b) == a.y < b.y + Side(b.level) /\ b.y < a.y + Side(a.level)

\* b lies across face f of a (faces: 0 = x-, 1 = x+, 2 = y-, 3 = y+)
FaceAdj(a, f, b) ==
    CASE f = 0 -> b.x + Side(b.level) = a.x /\ OverlapY(a, b)
      [] f = 1 -> b.x = a.x + Side(a.level) /\ OverlapY(a, b)
      [] f = 2 -> b.y + Side(b.level) = a.y /\ OverlapX(a, b)
      [] OTHER -> b.y = a.y + Side(a.level) /\ OverlapX(a, b)

\* b holds the cell diagonally opposite to a across node n of a
NodeAdj(a, n, b) ==
    LET ux == IF n % 2 = 1 THEN a.x + Side(a.level) ELSE a.x - 1
        uy == IF n \div 2 = 1 THEN a.y + Side(a.level) ELSE a.y - 1
    IN Covers(b, ux, uy)

\* b is a neighbour of a through an entity of codimension <= codim
Adjacent(a, b, codim) ==
    \/ \E f \in 0 .. 3 : FaceAdj(a, f, b)
    \/ codim >= 2 /\ \E n \in 0 .. 3 : NodeAdj(a, n, b)

\* ------------------------------------- local tree (design document, 4.3)
\* One refinement pass over the owned octants: an octant with a positive
\* marker below the deepest level is replaced by its children, which carry
\* the decremented marker; a request past the deepest level is dropped.
\* map[i] is the index before the adapt of the octant now at position i.
RECURSIVE RefinePass(_, _, _)
RefinePass(octs, map, i) ==
    IF i > Len(octs) THEN [o |-> <<>>, m |-> <<>>, done |-> FALSE]
    ELSE LET rest == RefinePass(octs, map, i + 1)
             c == octs[i]
         IN IF c.marker > 0 /\ c.level < MaxLevel
            THEN [o |-> buildChildren(c) \o rest.o,
                  m |-> <<map[i], map[i], map[i], map[i]>> \o rest.m,
                  done |-> TRUE]
            ELSE [o |-> <<[c EXCEPT !.newC = FALSE,
                                   !.marker = IF c.marker > 0 THEN 0
                                              ELSE c.marker]>> \o rest.o,
                  m |-> <<map[i]>> \o rest.m,
                  done |-> rest.done]

\* while (m_octree.refine(m_mapIdx));
RECURSIVE refine(_, _)
refine(octs, map) ==
    LET r == RefinePass(octs, map, 1)
    IN IF r.done THEN refine(r.o, r.m) ELSE [o |-> r.o, m |-> r.m]

\* all markers forced to +1 and one pass of refinement: one level
globalRefine(octs, map) ==
    LET r == RefinePass([i \in 1 .. Len(octs) |->
                            [octs[i] EXCEPT !.marker = 1]], map, 1)
    IN [o |-> r.o, m |-> r.m]

MaxMarker(octs, S) ==
    CHOOSE v \in {octs[i].marker : i \in S} :
        \A i \in S : octs[i].marker <= v

buildFather(c, mk) ==
    [level |-> c.level - 1, x |-> c.x, y |-> c.y, marker |-> mk + 1,
     balance |-> c.balance, newR |-> FALSE, newC |-> TRUE,
     pbound |-> {}, layer |-> -1]

\* four owned siblings from position i on, all asking for coarsening
IsFamilyAt(octs, i) ==
    /\ i + 3 <= Len(octs)
    /\ isFirstChild(octs[i])
    /\ \A k \in i .. i + 3 : SameFamily(octs[k], octs[i])
                               /\ octs[k].marker <= -1

\* An incomplete family at the end of the owned sequence: the zero child is
\* owned, the missing siblings are ghosts of one rank and all of them ask
\* for coarsening.  The result is the set of these ghosts (1-based).
LastGhostBrosAt(octs, gh, ghRank, j) ==
    LET n == Len(octs)
    IN IF j > n THEN {}
       ELSE LET bros == {g \in 1 .. Len(gh) : SameFamily(gh[g], octs[n])}
            IN IF /\ isFirstChild(octs[n - j + 1])
                  /\ \A i \in (n - j + 1) .. n :
                        SameFamily(octs[i], octs[n]) /\ octs[i].marker <= -1
                  /\ Cardinality(bros) = 4 - j
                  /\ \A g \in bros : gh[g].marker <= -1
                  /\ \A g, h \in bros : ghRank[g] = ghRank[h]
               THEN bros ELSE {}

LastGhostBrosCount(octs, gh, ghRank) ==
    IF \E j \in 1 .. 3 : LastGhostBrosAt(octs, gh, ghRank, j) # {}
    THEN CHOOSE j \in 1 .. 3 : LastGhostBrosAt(octs, gh, ghRank, j) # {}
    ELSE 0

\* An incomplete family at the start of the owned sequence: the zero child
\* lives on one other rank, which takes the father; the owned siblings go.
FirstGhostBrosAt(octs, gh, ghRank, j) ==
    IF j > Len(octs) THEN {}
    ELSE LET bros == {g \in 1 .. Len(gh) : SameFamily(gh[g], octs[1])}
         IN IF /\ ~isFirstChild(octs[1])
               /\ ChildIndex(octs[1]) = 4 - j
               /\ \A i \in 1 .. j :
                     SameFamily(octs[i], octs[1]) /\ octs[i].marker <= -1
               /\ Cardinality(bros) = 4 - j
               /\ \A g \in bros : gh[g].marker <= -1
               /\ \A g, h \in bros : ghRank[g] = ghRank[h]
            THEN bros ELSE {}

FirstGhostBrosCount(octs, gh, ghRank) ==
    IF \E j \in 1 .. 3 : FirstGhostBrosAt(octs, gh, ghRank, j) # {}
    THEN CHOOSE j \in 1 .. 3 : FirstGhostBrosAt(octs, gh, ghRank, j) # {}
    ELSE 0

\* the owned families between lo and hi collapse; an octant that asked for
\* coarsening and whose family is incomplete has its marker reset
RECURSIVE CoarsePass(_, _, _, _)
CoarsePass(octs, map, i, hi) ==
    IF i > hi THEN [o |-> <<>>, m |-> <<>>, done |-> FALSE]
    ELSE IF i + 3 <= hi /\ IsFamilyAt(octs, i)
    THEN LET rest == CoarsePass(octs, map, i + 4, hi)
         IN [o |-> <<buildFather(octs[i], MaxMarker(octs, i .. i + 3))>>
                   \o rest.o,
             m |-> <<map[i]>> \o rest.m, done |-> TRUE]
    ELSE LET rest == CoarsePass(octs, map, i + 1, hi)
             c == octs[i]
         IN [o |-> <<[c EXCEPT !.marker = IF c.marker < 0 THEN 0
                                          ELSE c.marker]>> \o rest.o,
             m |-> <<map[i]>> \o rest.m, done |-> rest.done]

\* one coarsening pass of one rank: [o, m, first, last] with the ghost
\* brothers of the first and of the last family (0-based ghost indices)
CoarseEnds(octs, gh, map, nl, fb, lb, mid) ==
    [o |-> IF nl = 0 THEN mid.o
           ELSE mid.o \o <<buildFather(octs[Len(octs) - nl + 1],
                              Max(MaxMarker(octs,
                                      (Len(octs) - nl + 1) .. Len(octs)),
                                  MaxMarker(gh, lb)))>>,
     m |-> IF nl = 0 THEN mid.m ELSE mid.m \o <<map[Len(octs) - nl + 1]>>,
     first |-> SortSet({g - 1 : g \in fb}),
     last |-> SortSet({g - 1 : g \in lb})]

CoarseMiddle(octs, gh, ghRank, map, nf, nl) ==
    CoarseEnds(octs, gh, map, nl,
               IF nf = 0 THEN {} ELSE FirstGhostBrosAt(octs, gh, ghRank, nf),
               IF nl = 0 THEN {} ELSE LastGhostBrosAt(octs, gh, ghRank, nl),
               CoarsePass(octs, map, nf + 1, Len(octs) - nl))

coarse(octs, gh, ghRank, map) ==
    CoarseMiddle(octs, gh, ghRank, map,
                 FirstGhostBrosCount(octs, gh, ghRank),
                 LastGhostBrosCount(octs, gh, ghRank))

\* all markers forced to -1, ghosts included, and one pass of coarsening
globalCoarse(octs, gh, ghRank, map) ==
    coarse([i \in 1 .. Len(octs) |-> [octs[i] EXCEPT !.marker = -1]],
           [g \in 1 .. Len(gh) |-> [gh[g] EXCEPT !.marker = -1]],
           ghRank, map)

RECURSIVE coarseLoop(_, _, _, _)
coarseLoop(octs, gh, ghRank, map) ==
    With(coarse(octs, gh, ghRank, map), LAMBDA r :
        IF r.o = octs THEN r
        ELSE With(coarseLoop(r.o, gh, ghRank, r.m), LAMBDA s :
                 [o |-> s.o, m |-> s.m, first |-> r.first, last |-> r.last]))

\* neighbour search: the positions in s of the octants that touch a through
\* an entity of codimension <= codim
findNeighbours(a, s, codim) ==
    {j \in 1 .. Len(s) : Adjacent(a, s[j], codim)}

\* an octant takes part in the marker propagation when balancing is enabled
\* on it and it carries a marker (or, with doNew, is new)
IsProcessed(o, doNew) ==
    o.balance /\ (o.marker # 0 \/ (doNew /\ (o.newR \/ o.newC)))

\* One sweep of the marker propagation.  mk are the current markers of the
\* owned octants, P the processed ones.  A processed octant and each of its
\* owned neighbours are levelled against each other, a processed octant is
\* levelled against its ghost neighbours, and with checkGhost a ghost that
\* carries a marker levels its owned neighbours.  Only markers of owned,
\* balance-enabled octants are raised; levels never change.
BalanceSweep(octs, gh, codim, doNew, checkGhost, mk, P) ==
    [i \in 1 .. Len(octs) |->
        IF ~octs[i].balance THEN mk[i]
        ELSE LET fromLocal ==
                     {octs[j].level + mk[j] - 1 - octs[i].level :
                          j \in {k \in findNeighbours(octs[i], octs, codim) :
                                     i \in P \/ k \in P}}
                 fromGhost ==
                     {gh[g].level + gh[g].marker - 1 - octs[i].level :
                          g \in {k \in findNeighbours(octs[i], gh, codim) :
                                     \/ i \in P
                                     \/ checkGhost /\ IsProcessed(gh[k], doNew)}}
                 all == {mk[i]} \cup fromLocal \cup fromGhost
             IN CHOOSE v \in all : \A w \in all : w <= v]

RECURSIVE BalanceFix(_, _, _, _, _, _, _)
BalanceFix(octs, gh, codim, doNew, checkGhost, mk, P) ==
    With(BalanceSweep(octs, gh, codim, doNew, checkGhost, mk, P), LAMBDA new :
        IF new = mk THEN mk
        ELSE BalanceFix(octs, gh, codim, doNew, checkGhost, new,
                        P \cup {i \in 1 .. Len(octs) : new[i] # mk[i]}))

\* m_octree.localBalance(doNew, checkInterior, checkGhost)
localBalance(octs, gh, codim, doNew, checkInterior, checkGhost) ==
    With(BalanceFix(octs, gh, codim, doNew, checkGhost,
                    [i \in 1 .. Len(octs) |-> octs[i].marker],
                    IF checkInterior
                    THEN {i \in 1 .. Len(octs) : IsProcessed(octs[i], doNew)}
                    ELSE {}),
         LAMBDA mk :
            [o |-> [i \in 1 .. Len(octs) |->
                      [octs[i] EXCEPT !.marker = mk[i]]],
             updated |-> \E i \in 1 .. Len(octs) : mk[i] # octs[i].marker])

\* first and last descendant of the owned octants; an empty local tree
\* keeps the extreme values
LocalFirstDescMorton(octs) ==
    IF octs = <<>> THEN U64 - 1 ELSE getMorton(octs[1])
LocalLastDescMorton(octs) ==
    IF octs = <<>> THEN 0 ELSE computeLastDescMorton(octs[Len(octs)])

LocalMaxDepth(octs) ==
    IF octs = <<>> THEN 0
    ELSE CHOOSE v \in {octs[i].level : i \in 1 .. Len(octs)} :
             \A i \in 1 .. Len(octs) : octs[i].level <= v

\* deepest level at which a neighbour of the octant can be found
getMaxNeighLevel(o) == IF o.balance THEN o.level + 1 ELSE MaxLevel

\* anchors of the virtual neighbours of level nl across face f of o
computeVirtualNeighOffsets(o, f, nl) ==
    LET s == Side(nl)
        span == {k \in 0 .. (Side(o.level) - 1) : k % s = 0}
    IN CASE f = 0 -> {<<o.x - s, o.y + k>> : k \in span}
         [] f = 1 -> {<<o.x + Side(o.level), o.y + k>> : k \in span}
         [] f = 2 -> {<<o.x + k, o.y - s>> : k \in span}
         [] OTHER -> {<<o.x + k, o.y + Side(o.level)>> : k \in span}

\* anchor of the virtual neighbour of level nl across node n of o
computeVirtualNodeNeighOffsets(o, n, nl) ==
    LET s == Side(nl)
    IN {<<IF n % 2 = 1 THEN o.x + Side(o.level) ELSE o.x - s,
          IF n \div 2 = 1 THEN o.y + Side(o.level) ELSE o.y - s>>}

\* the face (node) lies on the boundary of the domain
getBound(o, f) ==
    CASE f = 0 -> o.x = 0
      [] f = 1 -> o.x + Side(o.level) = MaxLength
      [] f = 2 -> o.y = 0
      [] OTHER -> o.y + Side(o.level) = MaxLength

getNodeBound(o, n) ==
    \/ getBound(o, IF n % 2 = 1 THEN 1 ELSE 0)
    \/ getBound(o, IF n \div 2 = 1 THEN 3 ELSE 2)

\* ------------------------------------------------ ParaTree: index algebra
\* The arrays of the partition registry are sequences: entry p + 1 belongs
\* to rank p.  Local and ghost indices are 0-based as in the code.

\* getGlobalIdx(idx) on rank p
getGlobalIdx(range, p, idx) ==
    IF p # 0 THEN Wrap64(range[p] + idx + 1) ELSE idx

\* getLocalIdx(gidx) on rank p
getLocalIdx(range, p, gidx) ==
    IF p # 0 THEN Wrap32(Wrap64(gidx - 1 - range[p])) ELSE Wrap32(gidx)

\* isInternal(gidx) on rank p
isInternal(range, p, gidx) ==
    IF gidx > range[p + 1] THEN FALSE
    ELSE IF p # 0 /\ gidx <= range[p] THEN FALSE
    ELSE TRUE

\* std::lower_bound over the registry: the halving search of the library,
\* which does not look at whether the array is sorted
RECURSIVE LowerBound(_, _, _, _)
LowerBound(range, first, count, v) ==
    IF count <= 0 THEN first
    ELSE LET step == count \div 2
         IN IF range[first + step + 1] < v
            THEN LowerBound(range, first + step + 1, count - step - 1, v)
            ELSE LowerBound(range, first, step, v)

getOwnerRank(range, gidx) ==
    LET r == LowerBound(range, 0, Len(range), gidx)
    IN IF r = Len(range) THEN -1 ELSE r

\* a search that stops at the upper end of the interval
BisectUpper(lastDesc, morton, beg, end, seed) == end

\* the bisection of findOwner
RECURSIVE Bisect(_, _, _, _, _)
Bisect(lastDesc, morton, beg, end, seed) ==
    IF beg = end THEN beg
    ELSE LET le == morton <= lastDesc[seed + 1]
             e1 == IF le THEN seed ELSE end
             b1 == IF le
                   THEN IF morton > lastDesc[seed] THEN seed ELSE beg
                   ELSE IF morton <= lastDesc[seed + 2] THEN seed + 1
                        ELSE seed
         IN Bisect(lastDesc, morton, b1, e1, b1 + (e1 - b1) \div 2)

RECURSIVE StepBack(_, _)
StepBack(lastDesc, beg) ==
    IF beg # 0 /\ lastDesc[beg + 1] = lastDesc[beg]
    THEN StepBack(lastDesc, beg - 1)
    ELSE beg

findOwner(lastDesc, morton) ==
    LET n == Len(lastDesc)
    IN IF morton <= lastDesc[1] THEN 0
       ELSE IF morton > lastDesc[n] THEN -1
       ELSE StepBack(lastDesc, Bisect(lastDesc, morton, 0, n - 1, n \div 2))

\* prefix sums of the per-rank counts minus one, in unsigned arithmetic
RangeOfCounts(counts) ==
    [p \in 1 .. Len(counts) |->
        Wrap64(SumSeq(SubSeq(counts, 1, p)) - 1)]

\* updateGlobalFirstDescMorton: all-gather of the local values, then the
\* empty ranks inherit from the rank after them, from the last rank down
RECURSIVE FixFirstDesc(_, _, _)
FixFirstDesc(fd, range, p) ==
    IF p <= 0 THEN fd
    ELSE FixFirstDesc(IF range[p + 1] = range[p]
                      THEN Put(fd, p + 1, fd[p + 2]) ELSE fd,
                      range, p - 1)

updateGlobalFirstDescMorton(octants, range) ==
    LET pp == NProc - 1
        gathered == [p \in 1 .. NProc |-> LocalFirstDescMorton(octants[p - 1])]
        tail == IF range[pp + 1] = range[pp]
                THEN Put(gathered, pp + 1, U64 - 1) ELSE gathered
    IN FixFirstDesc(tail, range, pp - 1)

\* updateGlobalLasttDescMorton: the empty ranks inherit from the rank before
RECURSIVE FixLastDesc(_, _, _)
FixLastDesc(ld, range, p) ==
    IF p >= NProc THEN ld
    ELSE FixLastDesc(IF range[p + 1] = range[p]
                     THEN Put(ld, p + 1, ld[p]) ELSE ld,
                     range, p + 1)

updateGlobalLasttDescMorton(octants, range) ==
    FixLastDesc([p \in 1 .. NProc |-> LocalLastDescMorton(octants[p - 1])],
                range, 1)

MaxOfSet(S) == CHOOSE v \in S : \A w \in S : w <= v

\* updateAdapt on the record t of the fields of all ranks
updateAdapt(t) ==
    IF t.serial
    THEN LET n == Len(t.octants[0])
         IN [t EXCEPT !.partitionRangeGlobalIdx0 = t.partitionRangeGlobalIdx,
                      !.maxDepth = LocalMaxDepth(t.octants[0]),
                      !.globalNumOctants = n,
                      !.partitionRangeGlobalIdx =
                          [p \in 1 .. NProc |-> Wrap64(n - 1)]]
    ELSE LET counts == [p \in 1 .. NProc |-> Len(t.octants[p - 1])]
         IN [t EXCEPT !.partitionRangeGlobalIdx0 = t.partitionRangeGlobalIdx,
                      !.maxDepth =
                          MaxOfSet({LocalMaxDepth(t.octants[p]) : p \in Ranks}),
                      !.globalNumOctants = SumSeq(counts),
                      !.partitionRangeGlobalIdx = RangeOfCounts(counts)]

updateAfterCoarse(t) ==
    With(updateAdapt(t), LAMBDA u :
        IF u.serial THEN u
        ELSE [u EXCEPT !.partitionFirstDesc =
                           updateGlobalFirstDescMorton(u.octants,
                               u.partitionRangeGlobalIdx),
                       !.partitionLastDesc =
                           updateGlobalLasttDescMorton(u.octants,
                               u.partitionRangeGlobalIdx)])

\* ------------------------------------------------- ParaTree: ghost halo
\* unordered_map / map as a function; insert keeps an existing entry
EmptyMap == [k \in {} |-> 0]
MapInsertAll(m, new) == m @@ new
Restrict(m, S) == [k \in S |-> m[k]]

\* all orders in which the elements of S can be visited
Perms(S) ==
    {f \in [1 .. Cardinality(S) -> S] :
        \A i, j \in 1 .. Cardinality(S) : i # j => f[i] # f[j]}

Reverse(s) == [i \in 1 .. Len(s) |-> s[Len(s) + 1 - i]]
Rotate(s, k) == [i \in 1 .. Len(s) |-> s[((i + k - 1) % Len(s)) + 1]]

\* Iteration orders of an unordered container with key set S.  With canon
\* only the ascending order is taken; otherwise every order for up to
\* MaxPerm keys and, above that, the rotations of the ascending and of the
\* descending order.
MaxPerm == 4
HashOrders(S, canon) ==
    IF canon \/ Cardinality(S) <= 1 THEN {SortSet(S)}
    ELSE IF Cardinality(S) <= MaxPerm THEN Perms(S)
    ELSE {Rotate(SortSet(S), k) : k \in 0 .. (Cardinality(S) - 1)}
         \cup {Rotate(Reverse(SortSet(S)), k) :
                  k \in 0 .. (Cardinality(S) - 1)}

\* all ways of taking one outcome per index
Product(Out) ==
    {f \in [DOMAIN Out -> UNION {Out[q] : q \in DOMAIN Out}] :
        \A q \in DOMAIN Out : f[q] \in Out[q]}

\* ranks other than p that own a virtual neighbour of octant o of rank p
VirtualOwners(t, p, coords) ==
    {findOwner(t.partitionLastDesc, computeMorton(c[1], c[2])) :
        c \in coords} \ {p}

FaceProcs(t, p, o, f) ==
    IF getBound(o, f) THEN {}
    ELSE VirtualOwners(t, p,
             computeVirtualNeighOffsets(o, f,
                 Min(getMaxNeighLevel(o), t.maxDepth)))

NodeProcs(t, p, o, n) ==
    IF getNodeBound(o, n) THEN {}
    ELSE VirtualOwners(t, p,
             computeVirtualNodeNeighOffsets(o, n,
                 Min(getMaxNeighLevel(o), t.maxDepth)))

neighProcs(t, p, o) ==
    UNION ({FaceProcs(t, p, o, f) : f \in 0 .. 3}
           \cup {NodeProcs(t, p, o, n) : n \in 0 .. 3})

\* a layer outside the halo
GhostLayerBeyond(t, acc, s, r, g) == t.nofGhostLayers

\* buildGhostOctants: every rank sends its sources, each receiver lines the
\* arrivals up by sender rank.  acc[s] = <<>> stands for the empty list of
\* accretions of the first layer.
GhostLayerOf(t, acc, s, r, g) ==
    IF acc[s] = <<>> THEN 0
    ELSE LET hit == {i \in 1 .. Len(acc[s]) : acc[s][i].targetRank = r}
         IN IF hit = {} THEN 0
            ELSE LET a == acc[s][CHOOSE i \in hit : TRUE]
                 IN IF g \in DOMAIN a.population THEN a.population[g] ELSE 0

GhostMsg(t, borders, acc, s, r) ==
    IF r \notin DOMAIN borders[s] THEN <<>>
    ELSE LET b == borders[s][r]
         IN [i \in 1 .. Len(b) |->
               LET g == getGlobalIdx(t.partitionRangeGlobalIdx, s, b[i])
                   src == IF b[i] < Len(t.octants[s])
                          THEN t.octants[s][b[i] + 1] ELSE Octant(0, 0, 0)
               IN [gidx |-> g,
                   oct |-> [src EXCEPT
                               !.layer = GhostLayerOf(t, acc, s, r, g)]]]

RECURSIVE GhostRecv(_, _, _, _, _)
GhostRecv(t, borders, acc, r, s) ==
    IF s >= NProc THEN <<>>
    ELSE GhostMsg(t, borders, acc, s, r)
         \o GhostRecv(t, borders, acc, r, s + 1)

buildGhostOctants(t, borders, acc) ==
    LET recv == [r \in Ranks |-> GhostRecv(t, borders, acc, r, 0)]
    IN [t EXCEPT
          !.bordersPerProc = borders,
          !.ghosts = [r \in Ranks |->
                         [i \in 1 .. Len(recv[r]) |-> recv[r][i].oct]],
          !.globalIdxGhosts = [r \in Ranks |->
                         [i \in 1 .. Len(recv[r]) |-> recv[r][i].gidx]]]

\* setPboundGhosts: the partition-boundary bits of the faces, the sources
\* of the first layer per neighbouring rank, and the first layer of ghosts
PboundOctants(t) ==
    [p \in Ranks |->
        [i \in 1 .. Len(t.octants[p]) |->
            [t.octants[p][i] EXCEPT !.pbound =
                {f \in 0 .. 3 :
                    IF getBound(t.octants[p][i], f)
                    THEN f \in t.octants[p][i].pbound
                    ELSE FaceProcs(t, p, t.octants[p][i], f) # {}}]]]

\* procs[p][i]: the ranks that own a virtual neighbour of octant i of p
PboundBorders(t, procs) ==
    [p \in Ranks |->
        [r \in UNION {procs[p][i] : i \in 1 .. Len(t.octants[p])} |->
            SortSet({i - 1 : i \in {j \in 1 .. Len(t.octants[p]) :
                                       r \in procs[p][j]}})]]

setPboundGhosts(t) ==
    buildGhostOctants([t EXCEPT !.octants = PboundOctants(t)],
                      PboundBorders(t, [p \in Ranks |->
                          [i \in 1 .. Len(t.octants[p]) |->
                              neighProcs(t, p, t.octants[p][i])]]),
                      [p \in Ranks |-> <<>>])

\* initializeGhostHaloAccretions on every rank: one accretion per key of
\* m_bordersPerProc, in key order
initializeGhostHaloAccretions(t) ==
    [p \in Ranks |->
        LET keys == SortSet(DOMAIN t.bordersPerProc[p])
        IN [k \in 1 .. Len(keys) |->
              LET gs == {getGlobalIdx(t.partitionRangeGlobalIdx, p, idx) :
                            idx \in SeqRange(t.bordersPerProc[p][keys[k]])}
                  int == {g \in gs :
                            isInternal(t.partitionRangeGlobalIdx, p, g)}
              IN [targetRank |-> keys[k],
                  population |-> [g \in int |-> 0],
                  internalSeeds |-> [g \in int |-> 0],
                  foreignSeeds |-> [g \in gs \ int |-> 0]]]]

\* the 1-ring of the owned octant with global index g on rank p, as global
\* indices, the octant itself included
OneRing(t, p, g) ==
    LET lidx == getLocalIdx(t.partitionRangeGlobalIdx, p, g)
    IN IF lidx >= Len(t.octants[p]) THEN {g}
       ELSE LET o == t.octants[p][lidx + 1]
            IN {getGlobalIdx(t.partitionRangeGlobalIdx, p, j - 1) :
                    j \in findNeighbours(o, t.octants[p], 2)}
               \cup {t.globalIdxGhosts[p][j] :
                    j \in findNeighbours(o, t.ghosts[p], 2)}
               \cup {getGlobalIdx(t.partitionRangeGlobalIdx, p, lidx)}

\* growth of one accretion of rank p, the seeds visited in the order ord
RECURSIVE GrowAccretion(_, _, _, _, _, _)
GrowAccretion(t, p, a, seeds, ord, k) ==
    IF k > Len(ord) THEN a
    ELSE CHOOSE r \in
            {GrowAccretion(t, p, b, seeds, ord, k + 1) :
                b \in UNION {
                    {[a EXCEPT
                        !.population =
                            @ @@ [n \in int |-> seeds[ord[k]] + 1],
                        !.internalSeeds =
                            @ @@ [n \in int |-> seeds[ord[k]] + 1],
                        !.foreignSeeds =
                            @ @@ [n \in {m \in fresh \ int :
                                     getOwnerRank(t.partitionRangeGlobalIdx,
                                                  m) # a.targetRank} |->
                                    seeds[ord[k]] + 1]] :
                       int \in {{n \in fresh :
                                   isInternal(t.partitionRangeGlobalIdx,
                                              p, n)}}} :
                    fresh \in {OneRing(t, p, ord[k])
                                  \ DOMAIN a.population}}} : TRUE

SameLayer(seeds) == \A g, h \in DOMAIN seeds : seeds[g] = seeds[h]

\* growGhostHaloAccretions on rank p: every outcome the iteration order of
\* the seeds allows
GrowRank(t, p, accs, canon) ==
    Product([i \in 1 .. Len(accs) |->
        LET a == accs[i]
            seeds == a.internalSeeds
        IN IF DOMAIN seeds = {} THEN {a}
           ELSE {GrowAccretion(t, p, [a EXCEPT !.internalSeeds = EmptyMap],
                               seeds, ord, 1) :
                    ord \in HashOrders(DOMAIN seeds,
                                       canon \/ SameLayer(seeds))}])

growGhostHaloAccretions(t, acc, canon) ==
    Product([p \in Ranks |-> GrowRank(t, p, acc[p], canon)])

\* the accretions rank s hands over to rank q: per accretion of s, the
\* foreign seeds that q owns
ForeignAccretions(t, acc, s, q) ==
    SelectSeq([i \in 1 .. Len(acc[s]) |->
                  LET fs == acc[s][i].foreignSeeds
                  IN [targetRank |-> acc[s][i].targetRank,
                      seeds |-> Restrict(fs, {g \in DOMAIN fs :
                          getOwnerRank(t.partitionRangeGlobalIdx, g) = q})]],
              LAMBDA m : DOMAIN m.seeds # {})

\* one received accretion: found by target rank or appended
RecvAccretion(accs, m) ==
    LET hit == {i \in 1 .. Len(accs) : accs[i].targetRank = m.targetRank}
    IN IF hit # {}
       THEN [i \in 1 .. Len(accs) |->
                IF i \in hit
                THEN [accs[i] EXCEPT !.population = @ @@ m.seeds,
                                     !.internalSeeds = @ @@ m.seeds]
                ELSE accs[i]]
       ELSE Append(accs, [targetRank |-> m.targetRank,
                          population |-> m.seeds,
                          internalSeeds |-> m.seeds,
                          foreignSeeds |-> EmptyMap])

RECURSIVE RecvMsg(_, _, _)
RecvMsg(accs, msg, k) ==
    IF k > Len(msg) THEN accs
    ELSE RecvMsg(RecvAccretion(accs, msg[k]), msg, k + 1)

\* the messages of the senders taken in the order ord (waitAnyRecv)
RECURSIVE RecvAll(_, _, _, _)
RecvAll(t, acc, q, ord) ==
    IF ord = <<>> THEN acc[q]
    ELSE RecvMsg(RecvAll(t, acc, q, SubSeq(ord, 1, Len(ord) - 1)),
                 ForeignAccretions(t, acc, ord[Len(ord)], q), 1)

Senders(t, acc, q) ==
    {s \in Ranks : ForeignAccretions(t, acc, s, q) # <<>>}

\* exchangeGhostHaloAccretions on all ranks: every outcome the completion
\* order of the receives allows
exchangeGhostHaloAccretions(t, acc, canon) ==
    IF \A q \in Ranks : Senders(t, acc, q) = {} THEN {acc}
    ELSE Product([q \in Ranks |->
             {RecvAll(t, acc, q, ord) :
                 ord \in IF canon THEN {SortSet(Senders(t, acc, q))}
                         ELSE Perms(Senders(t, acc, q))}])

\* the extracted local indices left in the order of the population map
unsortedBorders(v) == v

\* std::sort of the extracted local indices
sortBorders(v) == SortSet(SeqRange(v))

\* the sources of each accretion become the list of its target rank
RECURSIVE ExtractRank(_, _, _, _, _)
ExtractRank(t, p, accs, borders, canon) ==
    IF accs = <<>> THEN {borders}
    ELSE LET a == Head(accs)
         IN UNION {ExtractRank(t, p, Tail(accs),
                       [r \in DOMAIN borders \cup {a.targetRank} |->
                           IF r = a.targetRank
                           THEN sortBorders(
                                  [i \in 1 .. Len(ord) |->
                                     getLocalIdx(t.partitionRangeGlobalIdx,
                                                 p, ord[i])])
                           ELSE borders[r]], canon) :
                     ord \in HashOrders(DOMAIN a.population, canon)}

extractSources(t, acc, canon) ==
    Product([p \in Ranks |->
        ExtractRank(t, p, acc[p], t.bordersPerProc[p], canon)])

\* the exchange / growth rounds of computeGhostHalo from layer on
RECURSIVE Accrete(_, _, _, _)
Accrete(t, A, layer, canon) ==
    IF layer >= t.nofGhostLayers THEN A
    ELSE Accrete(t,
             UNION {growGhostHaloAccretions(t, e, canon) :
                 e \in UNION {exchangeGhostHaloAccretions(t, a, canon) :
                                 a \in A}},
             layer + 1, canon)

\* something of the rebuild read outside the octants or ranks there are
HaloUndefined(t, acc, borders) ==
    \E p \in Ranks :
        \/ \E i \in 1 .. Len(acc[p]) :
              \/ \E g \in DOMAIN acc[p][i].population :
                    getLocalIdx(t.partitionRangeGlobalIdx, p, g)
                        >= Len(t.octants[p])
              \/ \E g \in DOMAIN acc[p][i].foreignSeeds :
                    getOwnerRank(t.partitionRangeGlobalIdx, g) \notin Ranks
        \/ \E r \in DOMAIN borders[p] :
              \/ r \notin Ranks
              \/ \E i \in 1 .. Len(borders[p][r]) :
                    borders[p][r][i] >= Len(t.octants[p])

\* computeGhostHalo: the set of results over the orders left open
HaloLayers(t1, canon) ==
    IF t1.nofGhostLayers <= 1
    THEN {[t1 EXCEPT !.undefined =
              @ \/ HaloUndefined(t1, [p \in Ranks |-> <<>>],
                                 t1.bordersPerProc)]}
    ELSE UNION {{[buildGhostOctants(t1, b, a) EXCEPT !.undefined =
                     @ \/ HaloUndefined(t1, a, b)] :
                    b \in extractSources(t1, a, canon)} :
                a \in UNION {exchangeGhostHaloAccretions(t1, g, canon) :
                    g \in Accrete(t1, {initializeGhostHaloAccretions(t1)},
                                  1, canon)}}

HaloOutcomes(t, canon) == HaloLayers(setPboundGhosts(t), canon)

\* the result with every container visited in ascending order
computeGhostHalo(t) == CHOOSE h \in HaloOutcomes(t, TRUE) : TRUE

\* ------------------------------------------- ParaTree: markers and adapt
\* commMarker: the markers of the sources overwrite those of the ghosts,
\* position by position, the senders taken in rank order; ret is the value
\* returned on each rank, updated its all-reduction in balance21
RECURSIVE MarkerRecv(_, _, _)
MarkerRecv(t, r, s) ==
    IF s >= NProc THEN <<>>
    ELSE (IF r \in DOMAIN t.bordersPerProc[s]
          THEN LET b == t.bordersPerProc[s][r]
               IN [i \in 1 .. Len(b) |->
                     IF b[i] < Len(t.octants[s])
                     THEN t.octants[s][b[i] + 1].marker ELSE 0]
          ELSE <<>>) \o MarkerRecv(t, r, s + 1)

\* commMarker returning on every rank whether any rank has updated a ghost
commMarkerAny(t) ==
    IF t.serial THEN [t |-> t, updated |-> FALSE,
                      ret |-> [r \in Ranks |-> FALSE]]
    ELSE LET in == [r \in Ranks |-> MarkerRecv(t, r, 0)]
             gh == [r \in Ranks |->
                      [i \in 1 .. Len(t.ghosts[r]) |->
                         IF i <= Len(in[r])
                         THEN [t.ghosts[r][i] EXCEPT !.marker = in[r][i]]
                         ELSE t.ghosts[r][i]]]
         IN [t |-> [t EXCEPT !.ghosts = gh,
                       !.undefined = @ \/ \E r \in Ranks :
                                        Len(in[r]) > Len(t.ghosts[r])],
             updated |-> gh # t.ghosts,
             ret |-> [r \in Ranks |-> gh # t.ghosts]]

commMarker(t) ==
    IF t.serial THEN [t |-> t, updated |-> FALSE,
                      ret |-> [r \in Ranks |-> FALSE]]
    ELSE LET in == [r \in Ranks |-> MarkerRecv(t, r, 0)]
             gh == [r \in Ranks |->
                      [i \in 1 .. Len(t.ghosts[r]) |->
                         IF i <= Len(in[r])
                         THEN [t.ghosts[r][i] EXCEPT !.marker = in[r][i]]
                         ELSE t.ghosts[r][i]]]
         IN [t |-> [t EXCEPT !.ghosts = gh,
                       !.undefined = @ \/ \E r \in Ranks :
                                        Len(in[r]) > Len(t.ghosts[r])],
             updated |-> gh # t.ghosts,
             ret |-> [r \in Ranks |-> gh[r] # t.ghosts[r]]]

\* m_octree.localBalance on every rank
LocalBalanceAll(t, doNew, checkInterior, checkGhost) ==
    With([p \in Ranks |->
             localBalance(t.octants[p], t.ghosts[p], t.balanceCodim,
                          doNew, checkInterior, checkGhost)],
         LAMBDA res :
            [t |-> [t EXCEPT !.octants = [p \in Ranks |-> res[p].o]],
             updated |-> \E p \in Ranks : res[p].updated])

\* the propagation loop of balance21
RECURSIVE PropagateMarkers(_, _)
PropagateMarkers(t, balanceNewOctants) ==
    With(commMarker(t), LAMBDA c :
        IF ~c.updated THEN c.t
        ELSE With(LocalBalanceAll(c.t, balanceNewOctants, FALSE, TRUE),
                  LAMBDA b :
                     IF ~b.updated THEN b.t
                     ELSE PropagateMarkers(b.t, balanceNewOctants)))

balance21(t, balanceNewOctants) ==
    With(LocalBalanceAll(t, balanceNewOctants, TRUE, FALSE).t, LAMBDA first :
        IF first.serial THEN first
        ELSE PropagateMarkers(first, balanceNewOctants))

\* a mapping that sends every octant to the first one
AllFirst(n) == [i \in 1 .. n |-> 0]

Identity(n) == [i \in 1 .. n |-> i - 1]

ClearNew(octs) ==
    [i \in 1 .. Len(octs) |-> [octs[i] EXCEPT !.newR = FALSE, !.newC = FALSE]]

\* the entry of the adapt family: flags cleared, mapping initialised
StartAdapt(t) ==
    [t EXCEPT !.octants = [p \in Ranks |-> ClearNew(t.octants[p])],
              !.mapIdx = [p \in Ranks |-> Identity(Len(t.octants[p]))]]

RefineAll(t) ==
    With([p \in Ranks |-> refine(t.octants[p], t.mapIdx[p])], LAMBDA r :
        [t EXCEPT !.octants = [p \in Ranks |-> r[p].o],
                  !.mapIdx = [p \in Ranks |-> r[p].m]])

GlobalRefineAll(t) ==
    With([p \in Ranks |-> globalRefine(t.octants[p], t.mapIdx[p])],
         LAMBDA r :
            [t EXCEPT !.octants = [p \in Ranks |-> r[p].o],
                      !.mapIdx = [p \in Ranks |-> r[p].m]])

GhostRanks(t, p) ==
    [g \in 1 .. Len(t.ghosts[p]) |->
        getOwnerRank(t.partitionRangeGlobalIdx, t.globalIdxGhosts[p][g])]

CoarseAll(t, global) ==
    With([p \in Ranks |->
             IF global
             THEN globalCoarse(t.octants[p], t.ghosts[p],
                               GhostRanks(t, p), t.mapIdx[p])
             ELSE coarseLoop(t.octants[p], t.ghosts[p],
                             GhostRanks(t, p), t.mapIdx[p])],
         LAMBDA r :
            [t EXCEPT !.octants = [p \in Ranks |-> r[p].o],
                      !.mapIdx = [p \in Ranks |-> r[p].m],
                      !.firstGhostBros = [p \in Ranks |-> r[p].first],
                      !.lastGhostBros = [p \in Ranks |-> r[p].last]])

\* computeGhostHalo where the code calls it: on a partitioned tree only
HaloIfParallel(t) == IF t.serial THEN t ELSE computeGhostHalo(t)

EndAdapt(t, mapflag) ==
    [t EXCEPT !.lastOp = IF mapflag THEN OP_ADAPT_MAPPED
                         ELSE OP_ADAPT_UNMAPPED]

DropMap(t, mapflag) ==
    IF mapflag THEN t ELSE [t EXCEPT !.mapIdx = [p \in Ranks |-> <<>>]]

\* adapt without a marker propagation of its own
BalanceNever(t0, lastOp_) == t0

\* the marker propagation of adapt, skipped after preadapt
BalanceUnlessPre(t0, lastOp_) ==
    IF lastOp_ # OP_PRE_ADAPT THEN balance21(t0, FALSE) ELSE t0

private_adapt_mapidx(t, mapflag) ==
    EndAdapt(
        DropMap(
            HaloIfParallel(updateAfterCoarse(CoarseAll(
                HaloIfParallel(updateAdapt(RefineAll(
                    BalanceUnlessPre(StartAdapt(t), t.lastOp)))),
                FALSE))),
            mapflag),
        mapflag)

adapt(t, mapper_flag) == private_adapt_mapidx(t, mapper_flag)

adaptGlobalRefine(t, mapper_flag) ==
    EndAdapt(HaloIfParallel(updateAdapt(GlobalRefineAll(StartAdapt(t)))),
             mapper_flag)

adaptGlobalCoarse(t, mapper_flag) ==
    DropMap(
        HaloIfParallel(updateAdapt(RefineAll(balance21(
            HaloIfParallel(updateAfterCoarse(CoarseAll(
                balance21(StartAdapt(t), FALSE), TRUE))),
            TRUE)))),
        mapper_flag)

preadapt(t) == [balance21(t, FALSE) EXCEPT !.lastOp = OP_PRE_ADAPT]

\* the markers are balanced and the last operation is recorded
settleMarkersRecorded(t) == preadapt(t)

\* settleMarkers: the markers are balanced, the last operation is kept
settleMarkers(t) == balance21(t, FALSE)

\* getPreMarker(idx) on rank p: an error unless the last operation is
\* preadapt, the marker of the octant otherwise
getPreMarker(t, p, idx) ==
    IF t.lastOp # OP_PRE_ADAPT THEN [t |-> t, err |-> TRUE, marker |-> 0]
    ELSE [t |-> t, err |-> FALSE, marker |-> t.octants[p][idx + 1].marker]

\* check21Balance on rank p, and its all-reduced result
LocalCheck21(t, p) ==
    \A i \in 1 .. Len(t.octants[p]) :
        LET o == t.octants[p][i]
        IN /\ \A j \in findNeighbours(o, t.octants[p], t.balanceCodim) :
                 o.level - t.octants[p][j].level \in -1 .. 1
           /\ \A g \in findNeighbours(o, t.ghosts[p], t.balanceCodim) :
                 o.level - t.ghosts[p][g].level \in -1 .. 1

check21Balance(t) == \A p \in Ranks : LocalCheck21(t, p)

\* ------------------------------------------------ ParaTree: load balance
\* the octants of the whole tree in global order
GlobalOctants(t) ==
    IF t.serial THEN t.octants[0]
    ELSE LET RECURSIVE cat(_)
             cat(p) == IF p >= NProc THEN <<>>
                       ELSE t.octants[p] \o cat(p + 1)
         IN cat(0)

\* every rank takes the quotient
uniformFloor(globalNumOctants_, nproc) ==
    [i \in 1 .. nproc |-> Wrap32(globalNumOctants_ \div nproc)]

\* computePartition(partition) for a global count and a number of ranks
uniformPartition(globalNumOctants_, nproc) ==
    LET division_result == Wrap32(globalNumOctants_ \div nproc)
        remind == Wrap32(globalNumOctants_ % nproc)
    IN [i \in 1 .. nproc |->
          IF i - 1 < remind THEN division_result + 1 ELSE division_result]

\* computePartition(partition): uniform
computePartitionUniform(t) == uniformPartition(t.globalNumOctants, NProc)

\* computePartition(weight, partition): the greedy sweep over the global
\* weights w; r is [partition, nAssigned]
\* one octant for the rank, whatever the weights
TakeOne(w, n, taken, pw, target) == [taken |-> 1, n |-> n + 1]

RECURSIVE TakeOctants(_, _, _, _, _)
TakeOctants(w, n, taken, pw, target) ==
    \* partitionWeight < targetWeight, with targetWeight = target[1]/target[2]
    IF pw * target[2] < target[1]
    THEN IF n + 1 = Len(w) THEN [taken |-> taken + 1, n |-> n + 1]
         ELSE TakeOctants(w, n + 1, taken + 1, pw + w[n + 1], target)
    ELSE [taken |-> taken, n |-> n]

\* part has one entry for each rank
RECURSIVE WeightedSweep(_, _, _, _)
WeightedSweep(w, i, n, part) ==
    IF i >= Len(part) - 1 THEN Put(part, Len(part), Wrap32(Len(w) - n))
    ELSE LET unassigned == SumSeq(SubSeq(w, n + 1, Len(w)))
             r == TakeOctants(w, n, 0, 0, <<unassigned, Len(part) - i>>)
             q == Put(part, i + 1, r.taken)
         IN IF r.n = Len(w) THEN Put(q, Len(part), Wrap32(Len(w) - r.n))
            ELSE WeightedSweep(w, i + 1, r.n, q)

computePartitionWeighted(t, weight) ==
    WeightedSweep(weight, 0, 0, [i \in 1 .. NProc |-> 0])

\* the rank on which a tentative boundary falls: while (sum > range[j]) j++
RECURSIVE BoundaryOwner(_, _, _)
BoundaryOwner(range, sum, j) ==
    IF j >= Len(range) THEN j
    ELSE IF sum > range[j + 1] THEN BoundaryOwner(range, sum, j + 1)
    ELSE j

RECURSIVE BoundaryOwners(_, _, _, _, _)
BoundaryOwners(range, temp, iproc, sum, j) ==
    IF iproc >= NProc - 1 THEN <<>>
    ELSE LET s == sum + temp[iproc + 1]
             o == BoundaryOwner(range, s, j)
         IN <<o>> \o BoundaryOwners(range, temp, iproc + 1, s, o)

Rest(o, Dh) == (o.x % Dh) + (o.y % Dh)

RECURSIVE Forward(_, _, _, _)
Forward(octs, Dh, istart, i) ==
    IF Rest(octs[i + 1], Dh) = 0 THEN i - istart
    ELSE IF i = Len(octs) - 1 THEN Len(octs)
    ELSE Forward(octs, Dh, istart, i + 1)

RECURSIVE Backward(_, _, _, _)
Backward(octs, Dh, istart, i) ==
    IF Rest(octs[i + 1], Dh) = 0 THEN istart - i
    ELSE IF i = 0 THEN Len(octs)
    ELSE Backward(octs, Dh, istart, i - 1)

\* the correction of the boundary after rank iproc, computed on its owner
Deplace(t, Dh, owner, sum) ==
    LET octs == t.octants[owner]
        istart == IF owner # 0
                  THEN Wrap32(Wrap64(sum - t.partitionRangeGlobalIdx[owner]
                                     - 1))
                  ELSE sum
    IN IF istart >= Len(octs) THEN [d |-> 0, bad |-> TRUE]
       ELSE LET forw == Forward(octs, Dh, istart, istart)
                backw == Backward(octs, Dh, istart, istart)
            IN [d |-> IF forw < backw THEN forw ELSE 0 - backw,
                bad |-> FALSE]

\* computePartition(level_, weight, partition): family-compact; temp is
\* the tentative partition.  bad records a read outside an array.
FamilyLevel(maxDepth_, level_) == Min(Max(maxDepth_ - level_, 1), MaxLevel)
FamilySide(level) == 2^(MaxLevel - level)

computePartitionFamily(t, level_, temp) ==
    LET Dh == FamilySide(FamilyLevel(t.maxDepth, level_))
        owners == BoundaryOwners(t.partitionRangeGlobalIdx, temp, 0, 0, 0)
        dep == [i \in 1 .. NProc - 1 |->
                  IF owners[i] >= NProc THEN [d |-> 1, bad |-> TRUE]
                  ELSE Deplace(t, Dh, owners[i],
                               SumSeq(SubSeq(temp, 1, i)))]
    IN [partition |->
          [i \in 1 .. NProc |->
              Wrap32((IF i < NProc THEN Wrap32(temp[i] + dep[i].d)
                      ELSE temp[i])
                     - (IF i # 1 THEN dep[i - 1].d ELSE 0))],
        bad |-> \E i \in 1 .. NProc - 1 : dep[i].bad]

\* updateLoadBalance
updateLoadBalance(t) ==
    LET counts == [p \in 1 .. NProc |-> Len(t.octants[p - 1])]
        range == RangeOfCounts(counts)
    IN [t EXCEPT !.partitionRangeGlobalIdx0 = t.partitionRangeGlobalIdx,
                 !.partitionRangeGlobalIdx = range,
                 !.serial = FALSE,
                 !.partitionFirstDesc =
                     updateGlobalFirstDescMorton(t.octants, range),
                 !.partitionLastDesc =
                     updateGlobalLasttDescMorton(t.octants, range)]

\* privateLoadBalance (design document, 4.6): every rank ends with the
\* octants of its interval of the global sequence, in the order of the
\* sending ranks; then the registry and the halo are rebuilt.  A partition
\* that does not describe the tree leaves the exchange undefined.
ValidPartition(t, partition) ==
    SumSeq(partition) = Len(GlobalOctants(t))

ExchangeOctants(t, partition) ==
    LET G == GlobalOctants(t)
    IN [t EXCEPT !.octants =
          [p \in Ranks |->
              SubSeq(G, SumSeq(SubSeq(partition, 1, p)) + 1,
                     SumSeq(SubSeq(partition, 1, p + 1)))]]

privateLoadBalance(t, partition, bad, canon) ==
    IF bad \/ ~ValidPartition(t, partition)
    THEN {[t EXCEPT !.undefined = TRUE]}
    ELSE HaloOutcomes(updateLoadBalance(ExchangeOctants(t, partition)),
                      canon)

\* the uniform or the weighted partition: weight = <<>> stands for NULL
TentativePartition(t, weight) ==
    IF weight = <<>> THEN computePartitionUniform(t)
    ELSE computePartitionWeighted(t, weight)

\* loadBalance(weight)
loadBalance(t, weight, canon) ==
    privateLoadBalance([t EXCEPT !.lastOp = OP_LOADBALANCE],
                       TentativePartition(t, weight), FALSE, canon)

\* loadBalance(level, weight)
loadBalanceFamily(t, level_, weight, canon) ==
    With(computePartitionFamily(t, level_, TentativePartition(t, weight)),
         LAMBDA c :
            privateLoadBalance([t EXCEPT !.lastOp = OP_LOADBALANCE],
                               c.partition, c.bad, canon))

\* ------------------------------------------------------ ParaTree: setters
\* While the tree is not partitioned every rank holds the whole tree and
\* the ranks issue the same calls, so a setting reaches every copy.
SetOctant(t, p, idx, field, v) ==
    [t EXCEPT !.octants =
        [q \in Ranks |->
            IF (q = p \/ t.serial) /\ idx < Len(t.octants[q])
            THEN Put(t.octants[q], idx + 1,
                     IF field = "marker"
                     THEN [t.octants[q][idx + 1] EXCEPT !.marker = v]
                     ELSE [t.octants[q][idx + 1] EXCEPT !.balance = v])
            ELSE t.octants[q]]]

\* the setters without the check of the last operation
setMarkerUnchecked(t, p, idx, marker) ==
    [t |-> SetOctant(t, p, idx, "marker", marker), err |-> FALSE]
setBalanceUnchecked(t, p, idx, balance) ==
    [t |-> SetOctant(t, p, idx, "balance", balance), err |-> FALSE]
setBalanceCodimensionUnchecked(t, b21codim) ==
    [t |-> [t EXCEPT !.balanceCodim = b21codim], err |-> FALSE]

\* setMarker(idx, marker)
setMarker(t, p, idx, marker) ==
    IF t.lastOp = OP_PRE_ADAPT THEN [t |-> t, err |-> TRUE]
    ELSE [t |-> SetOctant(t, p, idx, "marker", marker), err |-> FALSE]

\* setBalance(idx, balance)
setBalance(t, p, idx, balance) ==
    IF t.lastOp = OP_PRE_ADAPT THEN [t |-> t, err |-> TRUE]
    ELSE [t |-> SetOctant(t, p, idx, "balance", balance), err |-> FALSE]

\* setMarker(oct, marker), oct pointing to the owned octant idx
setMarkerPtr(t, p, idx, marker) ==
    IF t.lastOp = OP_PRE_ADAPT THEN [t |-> t, err |-> TRUE]
    ELSE [t |-> SetOctant(t, p, idx, "marker", marker), err |-> FALSE]

\* setBalance(oct, balance)
setBalancePtr(t, p, idx, balance) ==
    IF t.lastOp = OP_PRE_ADAPT THEN [t |-> t, err |-> TRUE]
    ELSE [t |-> SetOctant(t, p, idx, "balance", balance), err |-> FALSE]

\* setNofGhostLayers(nofGhostLayers), for widths below the largest layer
setNofGhostLayers(t, nofGhostLayers_) ==
    IF t.nofGhostLayers = 0 THEN [t |-> t, err |-> TRUE]
    ELSE [t |-> [t EXCEPT !.nofGhostLayers = nofGhostLayers_], err |-> FALSE]

\* setBalanceCodimension(b21codim)
setBalanceCodimension(t, b21codim) ==
    IF t.lastOp = OP_PRE_ADAPT THEN [t |-> t, err |-> TRUE]
    ELSE [t |-> [t EXCEPT !.balanceCodim = b21codim], err |-> FALSE]

\* --------------------------------------------------- ParaTree: snapshot
\* getDumpVersion()
getDumpVersion == 1

\* dump(stream, full) on every rank
dump(t, full) ==
    [version |-> getDumpVersion, nproc |-> NProc, dim |-> t.dim,
     serial |-> t.serial, nofGhostLayers |-> t.nofGhostLayers,
     maxDepth |-> t.maxDepth, balanceCodim |-> t.balanceCodim,
     octants |-> t.octants, globalNumOctants |-> t.globalNumOctants,
     partitionFirstDesc |-> t.partitionFirstDesc,
     partitionLastDesc |-> t.partitionLastDesc,
     partitionRangeGlobalIdx |-> t.partitionRangeGlobalIdx,
     full |-> full, lastOp |-> t.lastOp,
     mapIdx |-> IF full /\ t.lastOp = OP_ADAPT_MAPPED
                THEN t.mapIdx ELSE [p \in Ranks |-> <<>>],
     lastGhostBros |-> IF full /\ t.lastOp = OP_ADAPT_MAPPED
                       THEN t.lastGhostBros ELSE [p \in Ranks |-> <<>>],
     partitionRangeGlobalIdx0 |->
         IF full /\ t.lastOp \in {OP_LOADBALANCE, OP_LOADBALANCE_FIRST}
         THEN t.partitionRangeGlobalIdx0 ELSE [p \in 1 .. NProc |-> 0]]

\* the octants in the reverse of the order of the stream
ReadOctantsReversed(st) == [p \in Ranks |-> Reverse(st.octants[p])]

\* restore: the octants are read in the order they were written
ReadOctants(st) == st.octants

\* every restore ends in the initial operation
RestoredOpInit(st) == OP_INIT

\* restore: m_lastOp is read from a full stream, and is OP_INIT after any
\* other
RestoredOp(st) == IF st.full THEN st.lastOp ELSE OP_INIT

\* restore(stream) on every rank; codim is the value the balance
\* codimension takes when read back through a bool
restore(t, st, codim) ==
    LET mapped == st.full /\ st.lastOp = OP_ADAPT_MAPPED
        r == [t EXCEPT
                !.serial = st.serial,
                !.nofGhostLayers = st.nofGhostLayers,
                !.maxDepth = st.maxDepth,
                !.balanceCodim = codim,
                !.octants = ReadOctants(st),
                !.ghosts = [p \in Ranks |-> <<>>],
                !.globalIdxGhosts = [p \in Ranks |-> <<>>],
                !.bordersPerProc = [p \in Ranks |-> EmptyMap],
                !.globalNumOctants = Wrap32(st.globalNumOctants),
                !.partitionFirstDesc = st.partitionFirstDesc,
                !.partitionLastDesc = st.partitionLastDesc,
                !.partitionRangeGlobalIdx = st.partitionRangeGlobalIdx,
                !.partitionRangeGlobalIdx0 = st.partitionRangeGlobalIdx0,
                !.mapIdx = st.mapIdx,
                !.firstGhostBros = [p \in Ranks |-> <<>>],
                !.lastGhostBros = st.lastGhostBros,
                !.lastOp = RestoredOp(st),
                !.undefined = @ \/ (mapped /\ \E p \in Ranks :
                                  Len(st.mapIdx[p]) # Len(st.octants[p]))]
    IN HaloIfParallel(r)

\* reinitialize(dim, logfile): the dimension, then the state of a new tree;
\* restore overwrites that state from the stream
reinitialize(t, dim_) ==
    IF dim_ < 2 \/ dim_ > 3 THEN [t |-> t, err |-> TRUE]
    ELSE [t |-> [t EXCEPT !.dim = dim_], err |-> FALSE]

\* restore(stream) from its first byte: the version and the number of
\* processes are compared, the local tree and the coordinate map take the
\* dimension of the stream, reinitialize takes it next
restoreStream(t, st, codim) ==
    IF st.version # getDumpVersion THEN [t |-> t, err |-> TRUE]
    ELSE IF st.nproc # NProc THEN [t |-> t, err |-> TRUE]
    ELSE With(reinitialize([t EXCEPT !.octreeDim = st.dim], st.dim),
              LAMBDA r : IF r.err THEN r
                         ELSE [t |-> restore(r.t, st, codim), err |-> FALSE])

\* the values a byte holding c can yield when read into a bool
BoolRead(c) == IF c \in {0, 1} THEN {c} ELSE {1, c}

\* ------------------------------------------------ ParaTree: communicator
\* A communicator is its handle and the rank it gives to every process of
\* the tree; the processes are named by the rank they have in m_comm.
\* Handle 0 is MPI_COMM_NULL.
MaxComms == 2
NullComm == [id |-> 0, rank |-> [p \in Ranks |-> p]]
WorldComm == [id |-> 1, rank |-> [p \in Ranks |-> p]]

isCommSet(t) == t.comm.id # 0

\* _initializePartitions as it runs on process p: every entry of the
\* registry is taken from the local tree of p
initializePartitions(t, p) ==
    [t EXCEPT
        !.partitionRangeGlobalIdx0 = [q \in 1 .. NProc |-> 0],
        !.partitionRangeGlobalIdx =
            [q \in 1 .. NProc |-> Wrap64(t.globalNumOctants - 1)],
        !.partitionLastDesc =
            [q \in 1 .. NProc |-> LocalLastDescMorton(t.octants[p])],
        !.partitionFirstDesc =
            [q \in 1 .. NProc |-> LocalFirstDescMorton(t.octants[p])]]

\* setComm(communicator) as it runs on process p: the communicator is
\* duplicated, then the registry is initialised
setComm(t, communicator, p) ==
    IF communicator.id = 0 \/ isCommSet(t) THEN [t |-> t, err |-> TRUE]
    ELSE [t |-> initializePartitions([t EXCEPT !.comm = communicator], p),
          err |-> FALSE]

\* freeComm
freeComm(t) == [t EXCEPT !.comm = NullComm]

\* replaceComm(communicator, previousCommunicator) as it runs on process p:
\* the ranks of the two communicators are compared on every process and
\* the result is all-reduced; the previous communicator is handed back or
\* freed, then the new one is set
replaceComm(t, communicator, p) ==
    IF ~isCommSet(t) THEN [t |-> t, err |-> TRUE]
    ELSE IF \E q \in Ranks : communicator.rank[q] # q
    THEN [t |-> t, err |-> TRUE]
    ELSE setComm(freeComm(t), communicator, p)

\* ---------------------------------------------------------------- state
VARIABLES
    octants,                  \* m_octree.m_octants of every rank
    ghosts,                   \* m_octree.m_ghosts
    globalIdxGhosts,          \* m_octree.m_globalIdxGhosts
    bordersPerProc,           \* m_bordersPerProc
    partitionFirstDesc,       \* m_partitionFirstDesc
    partitionLastDesc,        \* m_partitionLastDesc
    partitionRangeGlobalIdx,  \* m_partitionRangeGlobalIdx
    partitionRangeGlobalIdx0, \* m_partitionRangeGlobalIdx0
    globalNumOctants,         \* m_globalNumOctants
    maxDepth,                 \* m_maxDepth
    serial,                   \* m_serial
    lastOp,                   \* m_lastOp
    nofGhostLayers,           \* m_nofGhostLayers
    balanceCodim,             \* m_octree.m_balanceCodim
    mapIdx,                   \* m_mapIdx
    firstGhostBros,           \* m_octree.m_firstGhostBros
    lastGhostBros,            \* m_octree.m_lastGhostBros
    undefined,                \* an operation has left the defined behaviour
    dim,                      \* m_dim
    octreeDim,                \* the dimension of m_octree and of m_trans
    comm,                     \* m_comm
    stream,                   \* the snapshot written by the last dump
    call,                     \* the last call of the interface, its outcome
    nsets,                    \* accepted marker / balance settings
    ndumps,                   \* snapshots taken
    nbalances                 \* load balances counted against MaxBalances

tree == <<octants, ghosts, globalIdxGhosts, bordersPerProc,
          partitionFirstDesc, partitionLastDesc, partitionRangeGlobalIdx,
          partitionRangeGlobalIdx0, globalNumOctants, maxDepth, serial,
          lastOp, nofGhostLayers, balanceCodim, mapIdx, firstGhostBros,
          lastGhostBros, undefined, dim, octreeDim, comm>>

vars == <<tree, stream, call, nsets, ndumps, nbalances>>

\* the fields of all ranks as one record
PT ==
    [octants |-> octants, ghosts |-> ghosts,
     globalIdxGhosts |-> globalIdxGhosts, bordersPerProc |-> bordersPerProc,
     partitionFirstDesc |-> partitionFirstDesc,
     partitionLastDesc |-> partitionLastDesc,
     partitionRangeGlobalIdx |-> partitionRangeGlobalIdx,
     partitionRangeGlobalIdx0 |-> partitionRangeGlobalIdx0,
     globalNumOctants |-> globalNumOctants, maxDepth |-> maxDepth,
     serial |-> serial, lastOp |-> lastOp,
     nofGhostLayers |-> nofGhostLayers, balanceCodim |-> balanceCodim,
     mapIdx |-> mapIdx, firstGhostBros |-> firstGhostBros,
     lastGhostBros |-> lastGhostBros, undefined |-> undefined,
     dim |-> dim, octreeDim |-> octreeDim, comm |-> comm]

Install(t) ==
    /\ octants' = t.octants
    /\ ghosts' = t.ghosts
    /\ globalIdxGhosts' = t.globalIdxGhosts
    /\ bordersPerProc' = t.bordersPerProc
    /\ partitionFirstDesc' = t.partitionFirstDesc
    /\ partitionLastDesc' = t.partitionLastDesc
    /\ partitionRangeGlobalIdx' = t.partitionRangeGlobalIdx
    /\ partitionRangeGlobalIdx0' = t.partitionRangeGlobalIdx0
    /\ globalNumOctants' = t.globalNumOctants
    /\ maxDepth' = t.maxDepth
    /\ serial' = t.serial
    /\ lastOp' = t.lastOp
    /\ nofGhostLayers' = t.nofGhostLayers
    /\ balanceCodim' = t.balanceCodim
    /\ mapIdx' = t.mapIdx
    /\ firstGhostBros' = t.firstGhostBros
    /\ lastGhostBros' = t.lastGhostBros
    /\ undefined' = t.undefined
    /\ dim' = t.dim
    /\ octreeDim' = t.octreeDim
    /\ comm' = t.comm

SetterOps == {"setMarker", "setMarkerPtr", "setBalance", "setBalancePtr",
              "setBalanceCodimension"}
AdaptOps == {"adapt", "adaptGlobalRefine", "adaptGlobalCoarse"}

\* pending: preadapt has been called and no operation of the adapt family
\* has completed since
\* partition, count: the target partition of a load balance and the global
\* number of octants before it; outcomes: the number of results the orders
\* left open by the halo rebuild allow; bad: the computation of the
\* partition has read outside an array
\* ret: the value a step has returned on each rank
\* halo: the position of every rank in a rebuild of the halo in progress
NoHalo == [pc |-> <<>>, round |-> <<>>, acc |-> <<>>, sent |-> <<>>,
           dec |-> <<>>, got |-> <<>>]
NoCall == [op |-> "none", err |-> FALSE, map |-> FALSE, pre |-> FALSE,
           pending |-> FALSE, partition |-> <<>>, level |-> 0, count |-> 0,
           outcomes |-> 0, bad |-> FALSE, ret |-> <<>>, halo |-> NoHalo]
Call(op, err, map) ==
    [NoCall EXCEPT !.op = op, !.err = err, !.map = map,
                   !.pending = IF op = "preadapt" THEN TRUE
                               ELSE IF op \in AdaptOps THEN FALSE
                               ELSE call.pending]

\* the tree after construction: the root on every rank, not partitioned
Init ==
    /\ octants = [p \in Ranks |-> <<Octant(0, 0, 0)>>]
    /\ ghosts = [p \in Ranks |-> <<>>]
    /\ globalIdxGhosts = [p \in Ranks |-> <<>>]
    /\ bordersPerProc = [p \in Ranks |-> EmptyMap]
    /\ partitionFirstDesc = [p \in 1 .. NProc |-> 0]
    /\ partitionLastDesc = [p \in 1 .. NProc |-> MaxLength * MaxLength - 1]
    /\ partitionRangeGlobalIdx = [p \in 1 .. NProc |-> 0]
    /\ partitionRangeGlobalIdx0 = [p \in 1 .. NProc |-> 0]
    /\ globalNumOctants = 1
    /\ maxDepth = 0
    /\ serial = TRUE
    /\ lastOp = OP_INIT
    /\ nofGhostLayers = 1
    /\ balanceCodim = 1
    /\ mapIdx = [p \in Ranks |-> <<>>]
    /\ firstGhostBros = [p \in Ranks |-> <<>>]
    /\ lastGhostBros = [p \in Ranks |-> <<>>]
    /\ undefined = FALSE
    /\ dim = 2
    /\ octreeDim = 2
    /\ comm = WorldComm
    /\ stream = <<>>
    /\ call = NoCall
    /\ nsets = 0
    /\ ndumps = 0
    /\ nbalances = 0

\* -------------------------------------------------------------- actions
Markers == {-1, 1}
SetterRanks == IF serial THEN {0} ELSE Ranks

\* every pair of neighbours of the whole tree differs by at most one level
GlobalBalanced(t) ==
    LET G == GlobalOctants(t)
    IN \A i \in 1 .. Len(G) :
          \A j \in findNeighbours(G[i], G, t.balanceCodim) :
              G[i].level - G[j].level \in -1 .. 1

AllBalanceEnabled(t) ==
    \A p \in Ranks : \A i \in 1 .. Len(t.octants[p]) : t.octants[p][i].balance

\* the operations are explored on two-dimensional trees, while the local
\* tree has the dimension of the facade
Ready == ~undefined /\ stream = <<>> /\ octreeDim = dim /\ dim = 2

\* balance flags and pointer-form settings are tried on the first octant
FirstIdx(p) == IF octants[p] = <<>> THEN {} ELSE {0}

Setter(res, op) ==
    \E r \in {res} :
        /\ r.err \/ nsets < MaxSets
        /\ Install(r.t)
        /\ call' = Call(op, r.err, FALSE)
        /\ nsets' = IF r.err THEN nsets ELSE nsets + 1
        /\ UNCHANGED <<stream, ndumps, nbalances>>

SetMarker ==
    /\ Ready
    /\ \E p \in SetterRanks : \E idx \in 0 .. (Len(octants[p]) - 1) :
         \E m \in Markers : Setter(setMarker(PT, p, idx, m), "setMarker")

SetMarkerPtr ==
    /\ Ready
    /\ \E p \in SetterRanks : \E idx \in FirstIdx(p) : \E m \in Markers :
            Setter(setMarkerPtr(PT, p, idx, m), "setMarkerPtr")

SetBalance ==
    /\ Ready
    /\ \E p \in SetterRanks : \E idx \in FirstIdx(p) : \E b \in BOOLEAN :
            Setter(setBalance(PT, p, idx, b), "setBalance")

SetBalancePtr ==
    /\ Ready
    /\ \E p \in SetterRanks : \E idx \in FirstIdx(p) : \E b \in BOOLEAN :
            Setter(setBalancePtr(PT, p, idx, b), "setBalancePtr")

SetBalanceCodimension ==
    /\ Ready
    /\ \E c \in {1, 2} :
         Setter(setBalanceCodimension(PT, c), "setBalanceCodimension")

Preadapt ==
    /\ Ready
    /\ \E t \in {preadapt(PT)} : Install(t)
    /\ call' = Call("preadapt", FALSE, FALSE)
    /\ UNCHANGED <<stream, nsets, ndumps, nbalances>>

\* an operation of the adapt family with result t, within the octant cap
AdaptFamily(res, op, map, cap) ==
    \E t \in {res} :
        /\ Len(GlobalOctants(t)) <= cap
        /\ Install(t)
        /\ call' = [Call(op, FALSE, map) EXCEPT
                       !.pre = GlobalBalanced(PT) /\ AllBalanceEnabled(PT)]
        /\ UNCHANGED <<stream, ndumps, nbalances>>

Adapt ==
    /\ Ready
    /\ \E map \in BOOLEAN :
         AdaptFamily(adapt(PT, map), "adapt", map, MaxOctants)
    /\ UNCHANGED nsets

AdaptGlobalRefine ==
    /\ Ready
    /\ \E map \in BOOLEAN :
         AdaptFamily(adaptGlobalRefine(PT, map), "adaptGlobalRefine", map,
                     MaxOctants)
    /\ UNCHANGED nsets

AdaptGlobalCoarse ==
    /\ Ready
    /\ \E map \in BOOLEAN :
         AdaptFamily(adaptGlobalCoarse(PT, map), "adaptGlobalCoarse", map,
                     MaxOctants)
    /\ UNCHANGED nsets

\* the uniform or weighted target partition, computed within the arrays
Tentative(t, w) == [partition |-> TentativePartition(t, w), bad |-> FALSE]

\* a load balance with the set res of results and the target partition c
Balance(res, op, c, level_) ==
    \E S \in {res} :
        /\ \E h \in S : Install(h)
        /\ call' = [Call(op, FALSE, FALSE) EXCEPT
                       !.partition = c.partition, !.bad = c.bad,
                       !.level = level_, !.count = globalNumOctants,
                       !.outcomes = Cardinality(S)]
        /\ UNCHANGED <<stream, nsets, ndumps>>

LoadBalance ==
    /\ Ready
    /\ Balance(loadBalance(PT, <<>>, TRUE), "loadBalance",
               Tentative(PT, <<>>), 0)
    /\ UNCHANGED nbalances

Dump ==
    /\ Ready
    /\ ndumps < MaxDumps
    /\ \E full \in BOOLEAN : stream' = dump(PT, full)
    /\ call' = Call("dump", FALSE, FALSE)
    /\ ndumps' = ndumps + 1
    /\ UNCHANGED <<tree, nsets, nbalances>>

Restore ==
    /\ ~undefined
    /\ stream # <<>>
    /\ \E c \in BoolRead(stream.balanceCodim) :
          \E r \in {restoreStream(PT, stream, c)} :
              /\ Install(r.t)
              /\ call' = Call("restore", r.err, FALSE)
    /\ stream' = <<>>
    /\ UNCHANGED <<nsets, ndumps, nbalances>>

Next ==
    \/ SetMarker
    \/ SetMarkerPtr
    \/ SetBalance
    \/ SetBalancePtr
    \/ SetBalanceCodimension
    \/ Preadapt
    \/ Adapt
    \/ AdaptGlobalRefine
    \/ AdaptGlobalCoarse
    \/ LoadBalance
    \/ Dump
    \/ Restore

Spec == Init /\ [][Next]_vars

\* ------------------------------------- refinement with 2:1 balancing
\* markers, adaptation and uniform repartition on deeper trees
DeepAdapt ==
    /\ Ready
    /\ AdaptFamily(adapt(PT, FALSE), "adapt", FALSE, MaxOctantsDeep)
    /\ nsets' = 0

DeepGlobalRefine ==
    /\ Ready
    /\ AdaptFamily(adaptGlobalRefine(PT, FALSE), "adaptGlobalRefine", FALSE,
                   MaxOctantsDeep)
    /\ nsets' = 0

NextBalance ==
    \/ SetMarker
    \/ DeepAdapt
    \/ DeepGlobalRefine
    \/ LoadBalance

SpecBalance == Init /\ [][NextBalance]_vars

\* ------------------------------------------------- the three partitioners
\* the tree is refined before it is first partitioned
BuildMarker ==
    /\ Ready
    /\ serial
    /\ \E idx \in 0 .. (Len(octants[0]) - 1) :
          Setter(setMarker(PT, 0, idx, 1), "setMarker")

BuildAdapt ==
    /\ Ready
    /\ serial
    /\ AdaptFamily(adapt(PT, FALSE), "adapt", FALSE, MaxOctants)
    /\ nsets' = 0

BuildGlobalRefine ==
    /\ Ready
    /\ serial
    /\ AdaptFamily(adaptGlobalRefine(PT, FALSE), "adaptGlobalRefine", FALSE,
                   MaxOctants)
    /\ nsets' = 0

\* a load balance of an adapted tree, counted
Counted ==
    /\ Ready
    /\ nsets = 0
    /\ nbalances < MaxBalances
    /\ nbalances' = nbalances + 1

LoadBalanceUniform ==
    /\ Counted
    /\ Balance(loadBalance(PT, <<>>, TRUE), "loadBalance",
               Tentative(PT, <<>>), 0)

\* weights 0 and 1 over the global sequence, at most MaxOnes of them 1
Weights(n) ==
    {w \in [1 .. n -> {0, 1}] : SumSeq(w) <= MaxOnes}

LoadBalanceWeighted ==
    /\ Counted
    /\ \E w \in Weights(Len(GlobalOctants(PT))) :
          Balance(loadBalance(PT, w, TRUE), "loadBalanceWeighted",
                  Tentative(PT, w), 0)

LoadBalanceFamily ==
    /\ Counted
    /\ \E level_ \in 0 .. MaxLevelsUp :
          \E w \in {<<>>} \cup Weights(Len(GlobalOctants(PT))) :
              Balance(loadBalanceFamily(PT, level_, w, TRUE),
                      "loadBalanceFamily",
                      computePartitionFamily(PT, level_,
                                             TentativePartition(PT, w)),
                      level_)

NextLB ==
    \/ BuildMarker
    \/ BuildAdapt
    \/ BuildGlobalRefine
    \/ LoadBalanceUniform
    \/ LoadBalanceWeighted
    \/ LoadBalanceFamily

SpecLB == Init /\ [][NextLB]_vars

\* ------------------------------------------------------ the ghost halo
\* the halo width is chosen on the adapted tree before it is partitioned
SetNofGhostLayers ==
    /\ Ready
    /\ serial
    /\ nsets = 0
    /\ \E k \in 1 .. MaxLayers :
          \E r \in {setNofGhostLayers(PT, k)} :
              /\ Install(r.t)
              /\ call' = Call("setNofGhostLayers", r.err, FALSE)
    /\ UNCHANGED <<stream, nsets, ndumps, nbalances>>

\* a rebuild of the halo by a load balance of an adapted tree, counted
Rebuild ==
    /\ Ready
    /\ nsets = 0
    /\ nbalances < MaxRebuilds
    /\ nbalances' = nbalances + 1

\* load balance with every order of the receives and of the hash maps
HaloLoadBalance ==
    /\ Rebuild
    /\ \E w \in {<<>>} \cup Weights(Len(GlobalOctants(PT))) :
          Balance(loadBalance(PT, w, FALSE), "loadBalance",
                  Tentative(PT, w), 0)

\* at level_ = 0 every octant is aligned and the partition is the tentative
HaloLoadBalanceFamily ==
    /\ Rebuild
    /\ \E level_ \in 1 .. MaxLevelsUp :
          \E w \in {<<>>} \cup Weights(Len(GlobalOctants(PT))) :
              Balance(loadBalanceFamily(PT, level_, w, FALSE),
                      "loadBalanceFamily",
                      computePartitionFamily(PT, level_,
                                             TentativePartition(PT, w)),
                      level_)

NextHalo ==
    \/ BuildMarker
    \/ BuildAdapt
    \/ BuildGlobalRefine
    \/ SetNofGhostLayers
    \/ HaloLoadBalance
    \/ HaloLoadBalanceFamily

SpecHalo == Init /\ [][NextHalo]_vars

\* ---------------------------------------------------------- properties
Ascending(octs) ==
    \A i \in 1 .. (Len(octs) - 1) : getMorton(octs[i]) < getMorton(octs[i + 1])

C2_AdaptSetsLastOp ==
    (call.op \in AdaptOps /\ ~call.err)
        => lastOp = IF call.map THEN OP_ADAPT_MAPPED ELSE OP_ADAPT_UNMAPPED

\* C3: after adapt on a tree that was 2:1 balanced with balancing enabled on
\* every octant, neighbours across the enabled codimensions differ by at
\* most one level, among owned octants and against ghosts, and
\* check21Balance holds on every rank
C3_AdaptKeepsBalance ==
    (call.op = "adapt" /\ call.pre /\ ~undefined)
        => (GlobalBalanced(PT) /\ check21Balance(PT))

\* C4: after adapt, adaptGlobalRefine, adaptGlobalCoarse, loadBalance and
\* restore the owned octants of every rank are in strictly ascending Morton
\* order
C4_MortonOrder ==
    \A p \in Ranks : Ascending(octants[p])

C4_Witness ==
    /\ call.op = "restore"
    /\ ~serial
    /\ globalNumOctants > 4
    /\ \E p \in Ranks : Len(octants[p]) > 2

LBOps == {"loadBalance", "loadBalanceWeighted", "loadBalanceFamily"}

OctantCount == SumSeq([p \in 1 .. NProc |-> Len(octants[p - 1])])

\* C5: for the uniform, the weighted and the family-compact strategy the
\* computed target partition sums to the global octant count, and after
\* the load balance the octant counts of the ranks sum to the global count
\* before the call, the global count is unchanged and the last entry of
\* the global index ranges is the global count minus one (calls whose
\* partition computation stays within its arrays)
C5_LoadBalanceConserves ==
    (call.op \in LBOps /\ ~call.bad)
        => /\ SumSeq(call.partition) = call.count
           /\ OctantCount = call.count
           /\ globalNumOctants = call.count
           /\ partitionRangeGlobalIdx[NProc] = call.count - 1

\* the first octant of every rank after the first rank that owns octants
Boundaries ==
    {octants[p][1] : p \in {q \in Ranks : /\ octants[q] # <<>>
                                          /\ \E r \in 0 .. q - 1 :
                                                octants[r] # <<>>}}

\* C6: after a family-compact load balance at level L every boundary between
\* two ranks falls on an octant whose coordinates are multiples of
\* 2^(MaxLevel - L)
C6_FamilyCompact ==
    (call.op = "loadBalanceFamily" /\ ~undefined)
        => \A o \in Boundaries :
              Rest(o, FamilySide(FamilyLevel(maxDepth, call.level))) = 0

\* the halo has just been rebuilt on all ranks by a load balance
HaloBuilt == call.op \in LBOps /\ ~undefined

SameOctant(a, b) == a.level = b.level /\ a.x = b.x /\ a.y = b.y

\* C7: after a halo rebuild every octant o of rank p with a face or node
\* neighbour owned by a rank r # p is listed in p's borders for r and is a
\* ghost of r, the face towards r is flagged as a partition boundary, and
\* the keys of the borders of p are ranks other than p
C7_HaloComplete ==
    HaloBuilt =>
        \A p \in Ranks :
            /\ DOMAIN bordersPerProc[p] \subseteq Ranks \ {p}
            /\ \A i \in 1 .. Len(octants[p]) : \A r \in Ranks \ {p} :
                  (\E b \in SeqRange(octants[r]) :
                       Adjacent(octants[p][i], b, 2))
                  => /\ r \in DOMAIN bordersPerProc[p]
                     /\ (i - 1) \in SeqRange(bordersPerProc[p][r])
                     /\ \E g \in 1 .. Len(ghosts[r]) :
                           SameOctant(ghosts[r][g], octants[p][i])
                     /\ \A f \in 0 .. 3 :
                           (\E b \in SeqRange(octants[r]) :
                                FaceAdj(octants[p][i], f, b))
                           => f \in octants[p][i].pbound

C7_Witness ==
    /\ HaloBuilt
    /\ \A p \in Ranks : octants[p] # <<>> /\ ghosts[p] # <<>>
    /\ \E p \in Ranks : \E i \in 1 .. Len(octants[p]) :
          octants[p][i].pbound # {}

\* positions in the global sequence G within n hops of the positions S
RECURSIVE Within(_, _, _)
Within(G, S, n) ==
    IF n = 0 THEN S
    ELSE With(Within(G, S, n - 1), LAMBDA W :
            W \cup {j \in 1 .. Len(G) :
                       \E i \in W : Adjacent(G[i], G[j], 2)})

\* positions in the global sequence of the octants owned by rank r
Owned(r) ==
    {SumSeq([q \in 1 .. r |-> Len(octants[q - 1])]) + i :
        i \in 1 .. Len(octants[r])}

Cell(o) == <<o.level, o.x, o.y>>

\* C8: after a halo rebuild of width k the sources sent to rank r with
\* layer j < k are exactly the octants not owned by r at minimal hop
\* distance j + 1 (faces and nodes) from the octants of r
C8_LayerIsDistance ==
    HaloBuilt =>
        \A r \in Ranks : \A j \in 0 .. nofGhostLayers - 1 :
            {Cell(ghosts[r][g]) :
                g \in {h \in 1 .. Len(ghosts[r]) : ghosts[r][h].layer = j}}
            = {Cell(GlobalOctants(PT)[i]) :
                i \in Within(GlobalOctants(PT), Owned(r), j + 1)
                        \ Within(GlobalOctants(PT), Owned(r), j)}

C8_Witness ==
    /\ HaloBuilt
    /\ nofGhostLayers >= 2
    /\ \A p \in Ranks : octants[p] # <<>>
    /\ \E r \in Ranks : \E g \in 1 .. Len(ghosts[r]) : ghosts[r][g].layer = 1

\* C9: after a halo rebuild of width k every ghost has a layer in 0 .. k-1
\* and every owned octant has layer -1
C9_GhostLayerRange ==
    HaloBuilt =>
        \A p \in Ranks :
            /\ \A g \in 1 .. Len(ghosts[p]) :
                  ghosts[p][g].layer \in 0 .. nofGhostLayers - 1
            /\ \A i \in 1 .. Len(octants[p]) : octants[p][i].layer = -1

C9_Witness ==
    /\ HaloBuilt
    /\ nofGhostLayers >= 2
    /\ \E r \in Ranks :
          /\ \E g \in 1 .. Len(ghosts[r]) :
                ghosts[r][g].layer = nofGhostLayers - 1
          /\ \E g \in 1 .. Len(ghosts[r]) : ghosts[r][g].layer = 0

\* C10: the borders, ghosts, ghost global indices and ghost layers of a
\* halo rebuild are the same for every order of the receives and every
\* iteration order of the seed and population maps
C10_OrderIndependent == HaloBuilt => call.outcomes = 1

C10_Witness ==
    /\ HaloBuilt
    /\ call.outcomes = 1
    /\ nofGhostLayers >= 2
    /\ \A p \in Ranks : Len(octants[p]) >= 2
    /\ \E r \in Ranks : \E g \in 1 .. Len(ghosts[r]) : ghosts[r][g].layer >= 1

\* ------------------------------------------------- findOwner as a function
\* The registry arrays the owner lookup is tried on: every non-decreasing
\* array of 1 .. MaxRanks entries with values up to MaxKey.
MaxRanks == 4
MaxKey == 5

NonDecreasing ==
    UNION {{ld \in [1 .. n -> 0 .. MaxKey] :
               \A i \in 1 .. (n - 1) : ld[i] <= ld[i + 1]} : n \in 1 .. MaxRanks}

\* The entries of the array the bisection of findOwner reads (0-based) and
\* whether the loop ends within fuel iterations.  The walk stops at the first
\* read outside the array, which stays in the set of reads.
RECURSIVE BisectTrace(_, _, _, _, _, _)
BisectTrace(lastDesc, morton, beg, end, seed, fuel) ==
    IF beg = end THEN [reads |-> {}, ends |-> TRUE]
    ELSE IF fuel = 0 THEN [reads |-> {}, ends |-> FALSE]
    ELSE IF seed \notin 0 .. (Len(lastDesc) - 1)
    THEN [reads |-> {seed}, ends |-> TRUE]
    ELSE With(IF morton <= lastDesc[seed + 1] THEN seed - 1 ELSE seed + 1,
              LAMBDA second :
        IF second \notin 0 .. (Len(lastDesc) - 1)
        THEN [reads |-> {seed, second}, ends |-> TRUE]
        ELSE With(IF morton <= lastDesc[seed + 1] THEN seed ELSE end,
                  LAMBDA e1 :
             With(IF morton <= lastDesc[seed + 1]
                  THEN IF morton > lastDesc[seed] THEN seed ELSE beg
                  ELSE IF morton <= lastDesc[seed + 2] THEN seed + 1
                       ELSE seed,
                  LAMBDA b1 :
             With(BisectTrace(lastDesc, morton, b1, e1,
                              b1 + (e1 - b1) \div 2, fuel - 1),
                  LAMBDA r : [reads |-> r.reads \cup {seed, second},
                              ends |-> r.ends]))))

\* the entries the walk back over equal entries reads
RECURSIVE StepBackReads(_, _)
StepBackReads(lastDesc, beg) ==
    IF beg = 0 THEN {}
    ELSE {beg, beg - 1}
         \cup (IF lastDesc[beg + 1] = lastDesc[beg]
               THEN StepBackReads(lastDesc, beg - 1) ELSE {})

\* reads and termination of findOwner(morton) on the array lastDesc
findOwnerTrace(lastDesc, morton) ==
    With(Len(lastDesc), LAMBDA n :
        IF morton <= lastDesc[1] THEN [reads |-> {0}, ends |-> TRUE]
        ELSE IF morton > lastDesc[n]
        THEN [reads |-> {0, n - 1}, ends |-> TRUE]
        ELSE With(BisectTrace(lastDesc, morton, 0, n - 1, n \div 2, n),
                  LAMBDA r :
                     IF r.ends /\ r.reads \subseteq 0 .. (n - 1)
                     THEN [reads |-> r.reads \cup {0, n - 1} \cup
                               StepBackReads(lastDesc,
                                   Bisect(lastDesc, morton, 0, n - 1,
                                          n \div 2)),
                           ends |-> TRUE]
                     ELSE [reads |-> r.reads \cup {0, n - 1},
                           ends |-> r.ends]))

\* the outcome of a query of the registry
Query(op, key, ret, reads, ends) ==
    [op |-> op, key |-> key, ret |-> ret, reads |-> reads, ends |-> ends]

\* a registry with any admissible array of last descendants
InitOwner ==
    /\ octants = [p \in Ranks |-> <<Octant(0, 0, 0)>>]
    /\ ghosts = [p \in Ranks |-> <<>>]
    /\ globalIdxGhosts = [p \in Ranks |-> <<>>]
    /\ bordersPerProc = [p \in Ranks |-> EmptyMap]
    /\ partitionFirstDesc = [p \in 1 .. NProc |-> 0]
    /\ partitionLastDesc \in NonDecreasing
    /\ partitionRangeGlobalIdx = [p \in 1 .. NProc |-> 0]
    /\ partitionRangeGlobalIdx0 = [p \in 1 .. NProc |-> 0]
    /\ globalNumOctants = 1
    /\ maxDepth = 0
    /\ serial = TRUE
    /\ lastOp = OP_INIT
    /\ nofGhostLayers = 1
    /\ balanceCodim = 1
    /\ mapIdx = [p \in Ranks |-> <<>>]
    /\ firstGhostBros = [p \in Ranks |-> <<>>]
    /\ lastGhostBros = [p \in Ranks |-> <<>>]
    /\ undefined = FALSE
    /\ dim = 2
    /\ octreeDim = 2
    /\ comm = WorldComm
    /\ stream = <<>>
    /\ call = NoCall
    /\ nsets = 0
    /\ ndumps = 0
    /\ nbalances = 0

\* findOwner(morton)
FindOwner ==
    \E morton \in 0 .. MaxKey :
        /\ With(findOwnerTrace(partitionLastDesc, morton), LAMBDA r :
              call' = Query("findOwner", morton,
                            IF r.ends /\ r.reads \subseteq
                                   0 .. (Len(partitionLastDesc) - 1)
                            THEN findOwner(partitionLastDesc, morton)
                            ELSE -2,
                            r.reads, r.ends))
        /\ UNCHANGED <<tree, stream, nsets, ndumps, nbalances>>

NextOwner == FindOwner
SpecOwner == InitOwner /\ [][NextOwner]_vars

\* C11: on every non-decreasing array of last descendants of any length
\* nproc >= 1 and for every key m, findOwner(m) terminates, reads only the
\* entries 0 .. nproc - 1, returns -1 exactly when m is above the last entry
\* and otherwise the lowest rank p with m <= last_desc[p].
C11_FindOwnerLowest ==
    call.op = "findOwner"
        => /\ call.ends
           /\ call.reads \subseteq 0 .. (Len(partitionLastDesc) - 1)
           /\ (call.ret = -1) <=>
                  (call.key > partitionLastDesc[Len(partitionLastDesc)])
           /\ call.ret # -1
                  => /\ call.ret \in 0 .. (Len(partitionLastDesc) - 1)
                     /\ call.key <= partitionLastDesc[call.ret + 1]
                     /\ \A q \in 0 .. (call.ret - 1) :
                           call.key > partitionLastDesc[q + 1]

\* a query answered by the walk back over a run of equal entries
C11_Witness ==
    /\ call.op = "findOwner"
    /\ Len(partitionLastDesc) = MaxRanks
    /\ call.ret = 2
    /\ partitionLastDesc[3] = partitionLastDesc[4]
    /\ call.key > partitionLastDesc[2]

\* ------------------------------------------------------ owner of a point
\* getPointOwnerRank from the Morton number of the point on: the linear
\* search over the first and last descendants of the ranks
RECURSIVE PointOwnerFrom(_, _, _, _)
PointOwnerFrom(firstDesc, lastDesc, morton, p) ==
    IF p >= Len(lastDesc) THEN -1
    ELSE IF morton <= lastDesc[p + 1] /\ morton >= firstDesc[p + 1] THEN p
    ELSE PointOwnerFrom(firstDesc, lastDesc, morton, p + 1)

getPointOwnerRank(firstDesc, lastDesc, morton) ==
    PointOwnerFrom(firstDesc, lastDesc, morton, 0)

\* the Morton numbers the tree covers: the whole domain
Mortons == 0 .. (MaxLength * MaxLength - 1)

\* the registry has been refreshed for a partitioned tree
Refreshed == call.op \in LBOps /\ ~serial /\ ~undefined

\* C12: after a registry refresh, for every Morton number m covered by the
\* tree findOwner(m) is the unique rank p with first_desc[p] <= m <=
\* last_desc[p], that rank owns at least one octant, and the linear search of
\* getPointOwnerRank selects the same rank.
C12_OwnerLookup ==
    Refreshed
        => \A m \in Mortons :
              With(findOwner(partitionLastDesc, m), LAMBDA p :
                  /\ p \in Ranks
                  /\ octants[p] # <<>>
                  /\ partitionFirstDesc[p + 1] <= m
                  /\ m <= partitionLastDesc[p + 1]
                  /\ \A q \in Ranks \ {p} :
                        ~(partitionFirstDesc[q + 1] <= m
                            /\ m <= partitionLastDesc[q + 1])
                  /\ getPointOwnerRank(partitionFirstDesc, partitionLastDesc,
                                       m) = p)

\* number of octants owned by the ranks 0 .. p
CountUpTo(p) == SumSeq([q \in 1 .. (p + 1) |-> Len(octants[q - 1])])

\* C13: after every operation that refreshes the registry of a partitioned
\* tree, whatever ranks own no octant (rank 0 included), range_global_idx is
\* non-decreasing, entry p is the number of octants of the ranks 0 .. p minus
\* one, not wrapped around, and two consecutive entries are equal exactly
\* when the later rank is empty.
C13_RangeMonotonic ==
    (call.op \in (AdaptOps \cup LBOps) /\ ~serial /\ ~undefined)
        => /\ \A p \in Ranks :
                 partitionRangeGlobalIdx[p + 1] = CountUpTo(p) - 1
           /\ \A p \in 1 .. (NProc - 1) :
                 /\ partitionRangeGlobalIdx[p] <= partitionRangeGlobalIdx[p + 1]
                 /\ (partitionRangeGlobalIdx[p] = partitionRangeGlobalIdx[p + 1])
                        <=> (octants[p] = <<>>)

\* C14: in every partitioned state, for every non-empty rank p and every
\* local index i of p, the global index g of i lies in
\* range_idx[p-1] + 1 .. range_idx[p], is internal on p and on no other rank,
\* is owned by p according to getOwnerRank, and converts back to i.
C14_IndexConsistency ==
    (~serial /\ ~undefined)
        => \A p \in Ranks : \A i \in 0 .. (Len(octants[p]) - 1) :
              With(getGlobalIdx(partitionRangeGlobalIdx, p, i), LAMBDA g :
                  /\ (IF p = 0 THEN 0 ELSE partitionRangeGlobalIdx[p] + 1) <= g
                  /\ g <= partitionRangeGlobalIdx[p + 1]
                  /\ \A q \in Ranks :
                        isInternal(partitionRangeGlobalIdx, q, g) <=> (q = p)
                  /\ getOwnerRank(partitionRangeGlobalIdx, g) = p
                  /\ getLocalIdx(partitionRangeGlobalIdx, p, g) = i)

\* C15: when adapt, adaptGlobalRefine, adaptGlobalCoarse or loadBalance
\* returns, range_global_idx_prev holds, for every rank, the value
\* range_global_idx had when the operation was called.
C15_PrevRangeSnapshot ==
    [][(call'.op \in (AdaptOps \cup LBOps))
          => partitionRangeGlobalIdx0' = partitionRangeGlobalIdx]_vars

\* ---------------------------------------------------------- adapt mapper
\* getMapping(idx, mapper, isghost) on rank p, the output vectors passed
\* empty: an octant new by coarsening maps to its four children, the last
\* ones taken from the ghost brothers when it closes the local tree; any
\* other octant maps to the entry of m_mapIdx.
getMapping(t, p, idx) ==
    IF idx >= Len(t.mapIdx[p])
    THEN [err |-> TRUE, mapper |-> <<>>, isghost |-> <<>>]
    ELSE IF t.octants[p][idx + 1].newC
    THEN With(4 - (IF idx = Len(t.octants[p]) - 1
                   THEN Len(t.lastGhostBros[p]) ELSE 0),
              LAMBDA nInternalChildren :
                 [err |-> FALSE,
                  mapper |-> [i \in 1 .. 4 |->
                      IF i <= nInternalChildren
                      THEN Wrap32(t.mapIdx[p][idx + 1] + (i - 1))
                      ELSE t.lastGhostBros[p][i - nInternalChildren]],
                  isghost |-> [i \in 1 .. 4 |-> i > nInternalChildren]])
    ELSE [err |-> FALSE, mapper |-> <<t.mapIdx[p][idx + 1]>>,
          isghost |-> <<FALSE>>]

\* the rank of the previous partition whose range reaches gidx, -1 if none
RECURSIVE PreviousOwnerFrom(_, _, _)
PreviousOwnerFrom(range0, gidx, iproc) ==
    IF iproc >= Len(range0) THEN -1
    ELSE IF range0[iproc + 1] >= gidx THEN iproc
    ELSE PreviousOwnerFrom(range0, gidx, iproc + 1)

\* getMapping(idx, mapper, isghost, rank) on rank p, the output vectors
\* passed empty.  After a mapped adapt it is the form above with the own
\* rank; after a load balance it is the position in the previous partition;
\* after any other operation the vectors are left as they were passed.
getMappingRank(t, p, idx) ==
    IF t.lastOp = OP_ADAPT_MAPPED
    THEN With(getMapping(t, p, idx), LAMBDA m :
            [err |-> m.err, mapper |-> m.mapper, isghost |-> m.isghost,
             rank |-> [i \in 1 .. Len(m.isghost) |-> p]])
    ELSE IF t.lastOp \in {OP_LOADBALANCE, OP_LOADBALANCE_FIRST}
    THEN With(getGlobalIdx(t.partitionRangeGlobalIdx, p, idx), LAMBDA gidx :
         With(PreviousOwnerFrom(t.partitionRangeGlobalIdx0, gidx, 0),
              LAMBDA iproc :
            [err |-> FALSE,
             mapper |-> <<IF iproc > 0
                          THEN Wrap32(gidx -
                                   (t.partitionRangeGlobalIdx0[iproc] + 1))
                          ELSE Wrap32(gidx)>>,
             isghost |-> <<FALSE>>,
             rank |-> <<IF iproc = -1 THEN 0
                        ELSE IF t.lastOp = OP_LOADBALANCE_FIRST THEN p
                        ELSE iproc>>]))
    ELSE [err |-> FALSE, mapper |-> <<>>, isghost |-> <<>>, rank |-> <<>>]

\* ------------------------------------- global refinement of deeper trees
MaxOctantsRefined == 28

DeepBuildAdapt ==
    /\ Ready
    /\ serial
    /\ AdaptFamily(adapt(PT, FALSE), "adapt", FALSE, MaxOctantsDeep)
    /\ nsets' = 0

MappedGlobalRefine ==
    /\ Ready
    /\ nsets = 0
    /\ \E map \in BOOLEAN :
         AdaptFamily(adaptGlobalRefine(PT, map), "adaptGlobalRefine", map,
                     MaxOctantsRefined)
    /\ UNCHANGED nsets

NextRefine ==
    \/ BuildMarker
    \/ DeepBuildAdapt
    \/ LoadBalanceUniform
    \/ MappedGlobalRefine

SpecRefine == Init /\ [][NextRefine]_vars

\* the octant old is the father of c, or c itself where c could not be
\* refined
FatherOrSelf(old, c) ==
    \/ c.level = old.level + 1 /\ Covers(old, c.x, c.y)
    \/ old.level = MaxLevel /\ c.level = old.level
           /\ c.x = old.x /\ c.y = old.y

\* C16: after adaptGlobalRefine(map = true) the mapping of every octant c
\* of the new tree is one old index, flagged not ghost: the local index the
\* father of c had before the refinement, or the old index of c itself when
\* c was at the deepest level and was not refined.
C16_RefineMapping ==
    [][(call'.op = "adaptGlobalRefine" /\ call'.map)
          => \A p \in Ranks : \A idx \in 0 .. (Len(octants'[p]) - 1) :
                With(getMapping(PT', p, idx), LAMBDA m :
                    /\ ~m.err
                    /\ Len(m.mapper) = 1
                    /\ m.isghost = <<FALSE>>
                    /\ m.mapper[1] < Len(octants[p])
                    /\ FatherOrSelf(octants[p][m.mapper[1] + 1],
                                    octants'[p][idx + 1]))]_vars

\* a mapped global refinement of a partitioned tree with octants of the
\* deepest level
C16_Witness ==
    /\ call.op = "adaptGlobalRefine"
    /\ call.map
    /\ ~serial
    /\ \E p \in Ranks : \E i, j \in 1 .. Len(octants[p]) :
          /\ octants[p][i].level = MaxLevel /\ ~octants[p][i].newR
          /\ octants[p][j].newR

\* c is the father of the octant o
ChildOf(o, c) == o.level = c.level + 1 /\ Covers(c, o.x, o.y)

\* the octant at position idx of rank p after the step was made by
\* coarsening: before the step its children were leaves
NewByCoarsening(p, idx) ==
    \E q \in Ranks : \E i \in 1 .. Len(octants[q]) :
        ChildOf(octants[q][i], octants'[p][idx + 1])

\* the mapping m of the father c: four old indices, the owned children
\* first, as consecutive local indices flagged not ghost, then the children
\* taken from the ghosts, flagged ghost
MapsToChildren(m, p, c) ==
    /\ ~m.err
    /\ Len(m.mapper) = 4
    /\ Len(m.isghost) = 4
    /\ \A i \in 1 .. 4 :
          IF m.isghost[i]
          THEN /\ m.mapper[i] < Len(ghosts[p])
               /\ ChildOf(ghosts[p][m.mapper[i] + 1], c)
          ELSE /\ m.mapper[i] < Len(octants[p])
               /\ ChildOf(octants[p][m.mapper[i] + 1], c)
               /\ i > 1 => /\ ~m.isghost[i - 1]
                           /\ m.mapper[i] = m.mapper[i - 1] + 1
    /\ \A i, j \in 1 .. 4 :
          i # j => <<m.isghost[i], m.mapper[i]>> # <<m.isghost[j], m.mapper[j]>>

\* C17: after adaptGlobalCoarse(map = true), whatever operation came before,
\* both forms of the mapping return, for every octant made by coarsening,
\* the four indices its children had before the call: the owned children as
\* consecutive indices flagged not ghost, the others as ghosts.
C17_CoarseMapping ==
    [][(call'.op = "adaptGlobalCoarse" /\ call'.map)
          => \A p \in (IF serial THEN {0} ELSE Ranks) :
                \A idx \in 0 .. (Len(octants'[p]) - 1) :
                   NewByCoarsening(p, idx)
                       => /\ MapsToChildren(getMapping(PT', p, idx), p,
                                            octants'[p][idx + 1])
                          /\ MapsToChildren(getMappingRank(PT', p, idx), p,
                                            octants'[p][idx + 1])]_vars

\* octants owned by the ranks below p before and after the step
CountBelow(p) == SumSeq([q \in 1 .. p |-> Len(octants[q - 1])])
CountBelowAfter(p) == SumSeq([q \in 1 .. p |-> Len(octants'[q - 1])])

\* C18: after a load balance between two partitions, the mapping of every
\* owned octant is one old index and one rank: the rank that owned the
\* octant of the same global index in the previous partition, also when that
\* partition had empty ranks, and the local index the octant had there.
C18_LoadBalanceMapping ==
    [][(call'.op \in LBOps /\ ~serial /\ ~undefined')
          => \A p \in Ranks : \A idx \in 0 .. (Len(octants'[p]) - 1) :
                \E q \in Ranks :
                    /\ CountBelow(q) <= CountBelowAfter(p) + idx
                    /\ CountBelowAfter(p) + idx < CountBelow(q) + Len(octants[q])
                    /\ With(getMappingRank(PT', p, idx), LAMBDA m :
                          /\ ~m.err
                          /\ m.rank = <<q>>
                          /\ m.mapper = <<CountBelowAfter(p) + idx - CountBelow(q)>>
                          /\ m.isghost = <<FALSE>>)]_vars

\* ------------------------------------------------------ snapshot round trip
\* getMapping gives the same answers on t and on u: the form with the rank
\* always, the form without it where t comes from a mapped adapt
SameMapping(t, u) ==
    \A p \in Ranks : \A idx \in 0 .. (Len(t.octants[p]) - 1) :
        /\ getMappingRank(u, p, idx) = getMappingRank(t, p, idx)
        /\ t.lastOp = OP_ADAPT_MAPPED
              => getMapping(u, p, idx) = getMapping(t, p, idx)

\* C19: restore of a full dump gives back the dumped state: the same owned
\* octants with their info bits, balance flags and markers, the same first
\* and last descendants and global index ranges, the same global octant
\* count, halo width and serial flag, the same ghosts when partitioned, and
\* the same mapping of every octant in both forms of getMapping.
C19_SnapshotRoundTrip ==
    [][(call'.op = "restore" /\ stream.full)
          => /\ ~undefined'
             /\ octants' = octants
             /\ partitionFirstDesc' = partitionFirstDesc
             /\ partitionLastDesc' = partitionLastDesc
             /\ partitionRangeGlobalIdx' = partitionRangeGlobalIdx
             /\ globalNumOctants' = globalNumOctants
             /\ nofGhostLayers' = nofGhostLayers
             /\ serial' = serial
             /\ (~serial => ghosts' = ghosts)
             /\ SameMapping(PT, PT')]_vars

\* ------------------------------------------------- restore of any stream
\* the headers a stream can carry: the version of dump and a later one, the
\* number of processes of the communicator and a larger one, the two
\* dimensions and two values that are no dimension.  A stream of dimension
\* 3 stands for the snapshot of a three-dimensional tree; the tree restored
\* from it is not explored further.
Versions == {getDumpVersion, getDumpVersion + 1}
ProcCounts == {NProc, NProc + 1}
Dimensions == {1, 2, 3, 4}

\* restore(stream) of a stream with any of these headers
RestoreForeign ==
    /\ ~undefined
    /\ stream # <<>>
    /\ \E v \in Versions : \E n \in ProcCounts : \E d \in Dimensions :
          \E st \in {[stream EXCEPT !.version = v, !.nproc = n, !.dim = d]} :
             \E c \in BoolRead(st.balanceCodim) :
                \E r \in {restoreStream(PT, st, c)} :
                    /\ Install(r.t)
                    /\ call' = Call("restore", r.err, FALSE)
    /\ stream' = <<>>
    /\ UNCHANGED <<nsets, ndumps, nbalances>>

NextSnapshot ==
    \/ SetMarker
    \/ AdaptGlobalRefine
    \/ LoadBalance
    \/ Dump
    \/ RestoreForeign

SpecSnapshot == Init /\ [][NextSnapshot]_vars

\* C20: a restore that raises an error leaves the engine as it was before
\* the call: the octants, the dimension of the facade and of the local tree
\* with its constants, the partition registry, last_op and the halo width.
C20_RestoreErrorKeepsState ==
    [][(call'.op = "restore" /\ call'.err)
          => /\ octants' = octants
             /\ dim' = dim
             /\ octreeDim' = octreeDim
             /\ partitionFirstDesc' = partitionFirstDesc
             /\ partitionLastDesc' = partitionLastDesc
             /\ partitionRangeGlobalIdx' = partitionRangeGlobalIdx
             /\ globalNumOctants' = globalNumOctants
             /\ lastOp' = lastOp
             /\ nofGhostLayers' = nofGhostLayers]_vars

\* C21: restore of a snapshot of another dimension than the facade's raises
\* an error: a restore that returns without error has kept the dimension of
\* the facade.
C21_DimensionMismatch ==
    [][(call'.op = "restore" /\ ~call'.err) => dim' = dim]_vars

\* C22: after restore of a full snapshot last_op is the last_op the engine
\* had when it was dumped, pre_adapt included; after restore of a snapshot
\* that is not full last_op is init.
C22_RestoredLastOp ==
    [][(call'.op = "restore" /\ ~call'.err)
          => lastOp' = IF stream.full THEN lastOp ELSE OP_INIT]_vars

\* a tree dumped after preadapt is restored locked
C22_Witness == call.op = "restore" /\ ~call.err /\ lastOp = OP_PRE_ADAPT

\* --------------------------------- arguments outside their stated ranges
\* setNofGhostLayers(k) for every width from 0 on; the width is kept in the
\* call
SetAnyNofGhostLayers ==
    /\ Ready
    /\ \E k \in 0 .. MaxLayers :
          \E r \in {setNofGhostLayers(PT, k)} :
              /\ Install(r.t)
              /\ call' = [Call("setNofGhostLayers", r.err, FALSE)
                             EXCEPT !.level = k]
    /\ UNCHANGED <<stream, nsets, ndumps, nbalances>>

\* markers within and beyond the deepest level
AnyMarkers == {-(MaxLevel + 1), -1, 1, MaxLevel + 1}

SetAnyMarker ==
    /\ Ready
    /\ \E p \in SetterRanks : \E idx \in 0 .. (Len(octants[p]) - 1) :
         \E m \in AnyMarkers : Setter(setMarker(PT, p, idx, m), "setMarker")

SetAnyMarkerPtr ==
    /\ Ready
    /\ \E p \in SetterRanks : \E idx \in FirstIdx(p) : \E m \in AnyMarkers :
            Setter(setMarkerPtr(PT, p, idx, m), "setMarkerPtr")

NextArgs ==
    \/ SetAnyNofGhostLayers
    \/ SetAnyMarker
    \/ SetAnyMarkerPtr
    \/ Preadapt
    \/ BuildGlobalRefine
    \/ LoadBalanceUniform

SpecArgs == Init /\ [][NextArgs]_vars

\* C23: setNofGhostLayers(0) on a halo of width 1 or more raises an error
\* and keeps the width, so the width is never below 1 and every
\* setNofGhostLayers(k) with k >= 1 succeeds.
C23_HaloWidthKept ==
    [][(call'.op = "setNofGhostLayers")
          => /\ nofGhostLayers' >= 1
             /\ call'.level = 0
                   => call'.err /\ nofGhostLayers' = nofGhostLayers
             /\ call'.level >= 1 => ~call'.err]_vars

\* C24: the marker of every octant is within -MAX_LEVEL .. MAX_LEVEL in
\* every reachable state, setMarker raising an error for any other value.
C24_MarkerRange ==
    \A p \in Ranks : \A i \in 1 .. Len(octants[p]) :
        octants[p][i].marker \in (-MaxLevel) .. MaxLevel

\* ------------------------------------------------- the result of adapt
\* private_adapt_mapidx: localDone of every rank, set where the refinement
\* has raised the number of local octants or the coarsening has lowered it
adaptLocalDone(t) ==
    CHOOSE d \in UNION {
        {[p \in Ranks |->
             \/ Len(r.octants[p]) > Len(t.octants[p])
             \/ Len(c.octants[p]) < Len(r.octants[p])] :
            c \in {CoarseAll(HaloIfParallel(updateAdapt(r)), FALSE)}} :
        r \in {RefineAll(BalanceUnlessPre(StartAdapt(t), t.lastOp))}} : TRUE

\* the value adapt returns on every rank: globalDone, which is localDone on
\* a tree that is not partitioned and its all-reduction (MPI_LOR) otherwise
adaptDone(t) ==
    CHOOSE g \in {[p \in Ranks |->
                      IF t.serial THEN d[p] ELSE \E q \in Ranks : d[q]] :
                  d \in {adaptLocalDone(t)}} : TRUE

\* the levels and anchors of a list of octants
Topology(octs) ==
    [i \in 1 .. Len(octs) |-> <<octs[i].level, octs[i].x, octs[i].y>>]

\* C25: adapt returns true on a rank exactly when the list of local octants
\* of that rank has changed; a rank whose local tree is unchanged gets false
\* also when other ranks have changed.
C25_AdaptReturnsLocal ==
    [][(call'.op = "adapt")
          => With(adaptDone(PT), LAMBDA done :
                \A p \in Ranks :
                    done[p] <=> Topology(octants'[p]) # Topology(octants[p]))
      ]_vars

\* ------------------------------------------- the uniform partition alone
\* The global counts the uniform partition is computed for: every count up
\* to MaxCount and, for nproc ranks, the largest count that nproc local
\* trees of uint32_t size can hold.
MaxCount == 16
Counts(nproc) == (0 .. MaxCount) \cup {nproc * (U32 - 1)}

\* a tree that is not partitioned, of any such count on 1 .. MaxRanks ranks;
\* the registry arrays have one entry for each rank
InitUniform ==
    /\ octants = [p \in Ranks |-> <<Octant(0, 0, 0)>>]
    /\ ghosts = [p \in Ranks |-> <<>>]
    /\ globalIdxGhosts = [p \in Ranks |-> <<>>]
    /\ bordersPerProc = [p \in Ranks |-> EmptyMap]
    /\ \E nproc \in 1 .. MaxRanks :
          /\ globalNumOctants \in Counts(nproc)
          /\ partitionFirstDesc = [p \in 1 .. nproc |-> 0]
          /\ partitionLastDesc =
                 [p \in 1 .. nproc |-> MaxLength * MaxLength - 1]
          /\ partitionRangeGlobalIdx =
                 [p \in 1 .. nproc |-> Wrap64(globalNumOctants - 1)]
          /\ partitionRangeGlobalIdx0 = [p \in 1 .. nproc |-> 0]
    /\ maxDepth = 0
    /\ serial = TRUE
    /\ lastOp = OP_INIT
    /\ nofGhostLayers = 1
    /\ balanceCodim = 1
    /\ mapIdx = [p \in Ranks |-> <<>>]
    /\ firstGhostBros = [p \in Ranks |-> <<>>]
    /\ lastGhostBros = [p \in Ranks |-> <<>>]
    /\ undefined = FALSE
    /\ dim = 2
    /\ octreeDim = 2
    /\ comm = WorldComm
    /\ stream = <<>>
    /\ call = NoCall
    /\ nsets = 0
    /\ ndumps = 0
    /\ nbalances = 0

\* computePartition(partition)
ComputePartition ==
    /\ call' = Query("computePartition", globalNumOctants,
                     uniformPartition(globalNumOctants,
                                      Len(partitionRangeGlobalIdx)),
                     {}, TRUE)
    /\ UNCHANGED <<tree, stream, nsets, ndumps, nbalances>>

NextUniform == ComputePartition
SpecUniform == InitUniform /\ [][NextUniform]_vars

\* C26: for a global count N and P ranks the uniform partition gives rank p
\* floor(N/P) + 1 octants when p < N mod P and floor(N/P) otherwise; its
\* entries sum to N and differ by at most one.
C26_UniformPartition ==
    call.op = "computePartition"
       => LET P == Len(partitionRangeGlobalIdx)
              N == globalNumOctants
              part == call.ret
          IN /\ Len(part) = P
             /\ \A p \in 0 .. (P - 1) :
                   part[p + 1] = (N \div P) + (IF p < N % P THEN 1 ELSE 0)
             /\ SumSeq(part) = N
             /\ \A p, q \in 1 .. P : part[p] - part[q] \in -1 .. 1

\* a count that leaves a remainder on more than one rank
C26_Witness ==
    /\ call.op = "computePartition"
    /\ Len(partitionRangeGlobalIdx) > 1
    /\ globalNumOctants > Len(partitionRangeGlobalIdx)
    /\ globalNumOctants % Len(partitionRangeGlobalIdx) # 0
    /\ SumSeq(call.ret) = globalNumOctants

\* ------------------------------------------ the weighted partition alone
\* The weight vectors the sweep is computed for: every vector of weights
\* 0 .. MaxWeight over at most MaxWeighted octants.
MaxWeight == 2
MaxWeighted == 4

\* computePartition(weight, partition) on the global weights w
ComputePartitionWeighted ==
    /\ globalNumOctants <= MaxWeighted
    /\ \E w \in [1 .. globalNumOctants -> 0 .. MaxWeight] :
          call' = Query("computePartitionWeighted", w,
                        WeightedSweep(w, 0, 0,
                            [i \in 1 .. Len(partitionRangeGlobalIdx) |-> 0]),
                        {}, TRUE)
    /\ UNCHANGED <<tree, stream, nsets, ndumps, nbalances>>

NextWeighted == ComputePartitionWeighted
SpecWeighted == InitUniform /\ [][NextWeighted]_vars

\* the smallest number of octants after the first n whose weight, taken
\* left times, reaches the weight of all octants after the first n
GreedyCount(w, n, left) ==
    LET rest == SumSeq(SubSeq(w, n + 1, Len(w)))
        enough == {k \in 0 .. (Len(w) - n) :
                      SumSeq(SubSeq(w, n + 1, n + k)) * left >= rest}
    IN IF enough = {} THEN Len(w) - n
       ELSE CHOOSE k \in enough : \A j \in enough : k <= j

\* C27: the weighted partition gives every rank i but the last, in Morton
\* order after the octants of the ranks before it, the smallest number of
\* octants whose weight reaches the weight still unassigned divided by the
\* number of ranks still to serve, or all that remain; the last rank takes
\* the rest and the entries sum to the global count.
C27_WeightedPartition ==
    call.op = "computePartitionWeighted"
       => LET P == Len(partitionRangeGlobalIdx)
              w == call.key
              part == call.ret
          IN /\ Len(part) = P
             /\ \A i \in 0 .. (P - 2) :
                   part[i + 1] =
                       GreedyCount(w, SumSeq(SubSeq(part, 1, i)), P - i)
             /\ part[P] = Len(w) - SumSeq(SubSeq(part, 1, P - 1))
             /\ SumSeq(part) = globalNumOctants

\* three ranks or more, unequal weights with a zero among them, a rank
\* before the last with two octants or more
C27_Witness ==
    /\ call.op = "computePartitionWeighted"
    /\ Len(call.ret) >= 3
    /\ \E i \in 1 .. (Len(call.ret) - 1) : call.ret[i] >= 2
    /\ \E j, k \in 1 .. Len(call.key) :
          call.key[j] = 0 /\ call.key[k] = MaxWeight

\* ------------------------------------- the family-compact displacement
\* the local indices of the octants of octs aligned to Dh
AlignedAt(octs, Dh) ==
    {k \in 0 .. (Len(octs) - 1) : Rest(octs[k + 1], Dh) = 0}

\* istart + d is the aligned position of octs nearest to istart, the one
\* behind istart when two are equally near
NearestAligned(octs, Dh, istart, d) ==
    /\ istart + d \in AlignedAt(octs, Dh)
    /\ \A k \in AlignedAt(octs, Dh) :
          /\ Max(k - istart, istart - k) >= Max(d, 0 - d)
          /\ (k < istart /\ istart - k = Max(d, 0 - d)) => d <= 0

\* C28: in the family-compact partition every tentative boundary that
\* falls on an octant is moved, on the rank that owns that octant, to the
\* aligned position nearest to it: by 0 when the octant is aligned, forward
\* when the forward distance is strictly the smaller, backward otherwise.
\* Checked in every state for every level and weight vector of loadBalance.
C28_NearestAlignedBoundary ==
    ~undefined =>
      \A level_ \in 0 .. MaxLevelsUp :
        \A w \in {<<>>} \cup Weights(Len(GlobalOctants(PT))) :
          LET temp == TentativePartition(PT, w)
              Dh == FamilySide(FamilyLevel(maxDepth, level_))
              owners == BoundaryOwners(partitionRangeGlobalIdx, temp, 0, 0, 0)
          IN \A i \in 1 .. (NProc - 1) :
                LET sum == SumSeq(SubSeq(temp, 1, i))
                IN sum < Len(GlobalOctants(PT))
                      => /\ owners[i] < NProc
                         /\ With(Deplace(PT, Dh, owners[i], sum), LAMBDA r :
                               /\ ~r.bad
                               /\ NearestAligned(
                                      octants[owners[i]], Dh,
                                      IF serial THEN sum
                                      ELSE sum - CountBelow(owners[i]),
                                      r.d))

\* --------------------------------------- the ranges of a load balance
\* the largest number of octants a rank holds in the partitions drawn
MaxShare == 2

\* offsets_A, offsets_B: the first global index of every rank and, last,
\* the total
PartitionOffsets(partition) ==
    [i \in 1 .. (Len(partition) + 1) |->
        Wrap64(SumSeq(SubSeq(partition, 1, i - 1)))]

\* std::upper_bound on the offsets: the first position whose offset is
\* greater than value, the end position when there is none
OffsetsUpperBound(offsets, value) ==
    LET above == {i \in 0 .. (Len(offsets) - 1) : offsets[i + 1] > value}
    IN IF above = {} THEN Len(offsets)
       ELSE CHOOSE i \in above : \A j \in above : i <= j

\* the loop over the ranks of schema B from position itr on
RECURSIVE IntersectFrom(_, _, _, _, _)
IntersectFrom(offsets_B, beginGlobalId_A, endGlobalId_A, itr, acc) ==
    IF itr >= Len(offsets_B) THEN acc
    ELSE IF itr + 1 >= Len(offsets_B) THEN [acc EXCEPT !.bad = TRUE]
    ELSE LET beginGlobalId_B == offsets_B[itr + 1]
             endGlobalId_B == offsets_B[itr + 2]
             next == [acc EXCEPT !.ranges =
                         (itr :> <<Max(beginGlobalId_A, beginGlobalId_B),
                                   Min(endGlobalId_A, endGlobalId_B)>>)
                         @@ acc.ranges]
         IN IF endGlobalId_B >= endGlobalId_A THEN next
            ELSE IntersectFrom(offsets_B, beginGlobalId_A, endGlobalId_A,
                               itr + 1, next)

\* evalPartitionIntersections(partition_A, rank_A, partition_B): for the
\* ranks of schema B that meet rank_A of schema A, the global interval
\* [begin, end) they share
evalPartitionIntersections(partition_A, rank_A, partition_B) ==
    IF partition_A[rank_A + 1] = 0 THEN [ranges |-> <<>>, bad |-> FALSE]
    ELSE LET offsets_A == PartitionOffsets(partition_A)
             offsets_B == PartitionOffsets(partition_B)
         IN IntersectFrom(offsets_B, offsets_A[rank_A + 1],
                          offsets_A[rank_A + 2],
                          OffsetsUpperBound(offsets_B,
                                            offsets_A[rank_A + 1]) - 1,
                          [ranges |-> <<>>, bad |-> FALSE])

\* the current partition schema as rank_ computes it from the registry
currentPartition(t, rank_) ==
    LET nproc == Len(t.partitionRangeGlobalIdx)
    IN IF ~t.serial
       THEN [i \in 1 .. nproc |->
                IF i = 1 THEN Wrap32(Wrap64(t.partitionRangeGlobalIdx[1] + 1))
                ELSE Wrap32(Wrap64(t.partitionRangeGlobalIdx[i]
                                   - t.partitionRangeGlobalIdx[i - 1]))]
       ELSE [i \in 1 .. nproc |->
                IF i = rank_ + 1 THEN Len(t.octants[rank_]) ELSE 0]

\* the intersections with the other ranks as ranges of local indices
LocalRanges(inter, rank_, offset) ==
    [r \in (DOMAIN inter.ranges) \ {rank_} |->
        <<Wrap32(Wrap64(inter.ranges[r][1] - offset)),
          Wrap32(Wrap64(inter.ranges[r][2] - offset))>>]

\* evalLoadBalanceRecvRanges with the offset taken in the current schema
evalLoadBalanceRecvRangesCurrent(t, rank_, updatedPartition) ==
    IF Len(t.partitionRangeGlobalIdx) = 1 THEN <<>>
    ELSE LET current == currentPartition(t, rank_)
         IN LocalRanges(
                evalPartitionIntersections(updatedPartition, rank_, current),
                rank_, PartitionOffsets(current)[rank_ + 1])

\* evalLoadBalanceSendRanges(updatedPartition) on rank_
evalLoadBalanceSendRanges(t, rank_, updatedPartition) ==
    IF Len(t.partitionRangeGlobalIdx) = 1 THEN <<>>
    ELSE LET current == currentPartition(t, rank_)
         IN LocalRanges(
                evalPartitionIntersections(current, rank_, updatedPartition),
                rank_, PartitionOffsets(current)[rank_ + 1])

\* evalLoadBalanceRecvRanges(updatedPartition) on rank_
evalLoadBalanceRecvRanges(t, rank_, updatedPartition) ==
    IF Len(t.partitionRangeGlobalIdx) = 1 THEN <<>>
    ELSE LET current == currentPartition(t, rank_)
         IN LocalRanges(
                evalPartitionIntersections(updatedPartition, rank_, current),
                rank_, PartitionOffsets(updatedPartition)[rank_ + 1])

\* a parallel tree on 1 .. MaxRanks ranks whose ranks hold 0 .. MaxShare
\* octants each
InitRanges ==
    /\ octants = [p \in Ranks |-> <<Octant(0, 0, 0)>>]
    /\ ghosts = [p \in Ranks |-> <<>>]
    /\ globalIdxGhosts = [p \in Ranks |-> <<>>]
    /\ bordersPerProc = [p \in Ranks |-> EmptyMap]
    /\ \E nproc \in 1 .. MaxRanks :
          \E counts \in [1 .. nproc -> 0 .. MaxShare] :
              /\ globalNumOctants = SumSeq(counts)
              /\ partitionFirstDesc = [p \in 1 .. nproc |-> 0]
              /\ partitionLastDesc =
                     [p \in 1 .. nproc |-> MaxLength * MaxLength - 1]
              /\ partitionRangeGlobalIdx = RangeOfCounts(counts)
              /\ partitionRangeGlobalIdx0 = [p \in 1 .. nproc |-> 0]
    /\ maxDepth = 0
    /\ serial = FALSE
    /\ lastOp = OP_INIT
    /\ nofGhostLayers = 1
    /\ balanceCodim = 1
    /\ mapIdx = [p \in Ranks |-> <<>>]
    /\ firstGhostBros = [p \in Ranks |-> <<>>]
    /\ lastGhostBros = [p \in Ranks |-> <<>>]
    /\ undefined = FALSE
    /\ dim = 2
    /\ octreeDim = 2
    /\ comm = WorldComm
    /\ stream = <<>>
    /\ call = NoCall
    /\ nsets = 0
    /\ ndumps = 0
    /\ nbalances = 0

\* evalLoadBalanceRanges(updatedPartition) on every rank, for an updated
\* partition of the octants of the tree
EvalLoadBalanceRanges ==
    /\ \E updatedPartition \in
             [1 .. Len(partitionRangeGlobalIdx) -> 0 .. globalNumOctants] :
          /\ SumSeq(updatedPartition) = globalNumOctants
          /\ call' = Query("evalLoadBalanceRanges", updatedPartition,
                 [send |-> [p \in 0 .. (Len(updatedPartition) - 1) |->
                       evalLoadBalanceSendRanges(PT, p, updatedPartition)],
                  recv |-> [p \in 0 .. (Len(updatedPartition) - 1) |->
                       evalLoadBalanceRecvRanges(PT, p, updatedPartition)]],
                 {}, TRUE)
    /\ UNCHANGED <<tree, stream, nsets, ndumps, nbalances>>

NextRanges == EvalLoadBalanceRanges
SpecRanges == InitRanges /\ [][NextRanges]_vars

\* the global indices of the range ranges[r], moved by offset; none when
\* there is no range for r
GlobalIndices(ranges, r, offset) ==
    IF r \in DOMAIN ranges
    THEN {offset + i : i \in ranges[r][1] .. (ranges[r][2] - 1)}
    ELSE {}

RangeLength(ranges, r) ==
    IF r \in DOMAIN ranges THEN ranges[r][2] - ranges[r][1] ELSE 0

\* C29: for a current partition A and an updated partition B of the same
\* octants of a parallel tree, and ranks p # q, the range p sends to q and
\* the range q receives from p have the same length and are the same global
\* indices (p's moved by its start in A, q's by its start in B); the ranges
\* a rank sends are pairwise disjoint and, with the interval it keeps,
\* cover its local indices exactly once.
C29_ExchangeRanges ==
    (call.op = "evalLoadBalanceRanges" /\ ~serial)
       => LET P == Len(partitionRangeGlobalIdx)
              A == currentPartition(PT, 0)
              B == call.key
              startA == PartitionOffsets(A)
              startB == PartitionOffsets(B)
              send == call.ret.send
              recv == call.ret.recv
          IN /\ \A p \in 0 .. (P - 1) :
                   /\ ~evalPartitionIntersections(A, p, B).bad
                   /\ ~evalPartitionIntersections(B, p, A).bad
             /\ \A p, q \in 0 .. (P - 1) :
                   p # q =>
                      /\ RangeLength(send[p], q) = RangeLength(recv[q], p)
                      /\ GlobalIndices(send[p], q, startA[p + 1])
                            = GlobalIndices(recv[q], p, startB[q + 1])
             /\ \A p \in 0 .. (P - 1) :
                   LET kept == startA[p + 1] .. (startA[p + 2] - 1)
                                  \cap startB[p + 1] .. (startB[p + 2] - 1)
                   IN /\ \A q, r \in DOMAIN send[p] :
                            q # r => GlobalIndices(send[p], q, 0)
                                        \cap GlobalIndices(send[p], r, 0) = {}
                      /\ \A q \in DOMAIN send[p] :
                            /\ RangeLength(send[p], q) >= 0
                            /\ GlobalIndices(send[p], q, startA[p + 1])
                                  \cap kept = {}
                      /\ UNION {GlobalIndices(send[p], q, startA[p + 1]) :
                                   q \in DOMAIN send[p]} \cup kept
                            = startA[p + 1] .. (startA[p + 2] - 1)

\* a rank that sends octants to two ranks and keeps some, and a rank of
\* the updated partition that is empty
C29_Witness ==
    /\ call.op = "evalLoadBalanceRanges"
    /\ ~serial
    /\ \E p \in DOMAIN call.ret.send :
          /\ Cardinality({q \in DOMAIN call.ret.send[p] :
                             RangeLength(call.ret.send[p], q) > 0}) >= 2
          /\ call.key[p + 1] > 0
          /\ Wrap64(partitionRangeGlobalIdx[p + 1] + 1)
                > SumSeq(SubSeq(call.key, 1, p + 1))
    /\ \E q \in 1 .. Len(call.key) : call.key[q] = 0

\* --------------------------------------------- the order of the ghosts
\* the positions of the ghosts of rank r that rank s owns, ascending
GhostsFrom(r, s) ==
    SortSet({g \in 1 .. Len(globalIdxGhosts[r]) :
                globalIdxGhosts[r][g] \in
                    {getGlobalIdx(partitionRangeGlobalIdx, s, i - 1) :
                        i \in 1 .. Len(octants[s])}})

\* C30: after a halo rebuild of any width the ghosts of every rank r are
\* strictly ascending in global index and in Morton order across the
\* layers, none of them is an octant of r, each is the octant of that
\* global index, and the ghosts received from a rank s are, in order, the
\* octants of the sorted list of borders of s for r.
C30_GhostOrder ==
    HaloBuilt =>
        \A r \in Ranks :
            /\ Len(globalIdxGhosts[r]) = Len(ghosts[r])
            /\ \A g \in 1 .. (Len(ghosts[r]) - 1) :
                  globalIdxGhosts[r][g] < globalIdxGhosts[r][g + 1]
            /\ Ascending(ghosts[r])
            /\ \A g \in 1 .. Len(ghosts[r]) :
                  /\ globalIdxGhosts[r][g] < Len(GlobalOctants(PT))
                  /\ SameOctant(ghosts[r][g],
                         GlobalOctants(PT)[globalIdxGhosts[r][g] + 1])
                  /\ \A i \in 1 .. Len(octants[r]) :
                        /\ ~SameOctant(ghosts[r][g], octants[r][i])
                        /\ globalIdxGhosts[r][g] #
                              getGlobalIdx(partitionRangeGlobalIdx, r, i - 1)
            /\ \A s \in Ranks \ {r} :
                  LET b == IF r \in DOMAIN bordersPerProc[s]
                           THEN bordersPerProc[s][r] ELSE <<>>
                      from == GhostsFrom(r, s)
                  IN /\ \A i \in 1 .. (Len(b) - 1) : b[i] < b[i + 1]
                     /\ Len(from) = Len(b)
                     /\ \A i \in 1 .. Len(b) :
                           globalIdxGhosts[r][from[i]]
                              = getGlobalIdx(partitionRangeGlobalIdx, s, b[i])

\* a rebuild of two layers after which a rank has ghosts of both layers
\* from two senders, a ghost of the second layer before one of the first
C30_Witness ==
    /\ HaloBuilt
    /\ nofGhostLayers >= 2
    /\ \E r \in Ranks :
          /\ \A s \in Ranks \ {r} : Len(GhostsFrom(r, s)) >= 1
          /\ \E g, h \in 1 .. Len(ghosts[r]) :
                g < h /\ ghosts[r][g].layer = 1 /\ ghosts[r][h].layer = 0

\* ------------------------------------------- the exchange of the markers
\* commMarker as a step of its own on a partitioned tree
CommMarker ==
    /\ Ready
    /\ ~serial
    /\ \E c \in {commMarker(PT)} :
          /\ Install(c.t)
          /\ call' = [Call("commMarker", FALSE, FALSE) EXCEPT !.ret = c.ret]
    /\ UNCHANGED <<stream, nsets, ndumps, nbalances>>

\* a tree is refined and partitioned by weight, then a marker is set
NextMarker ==
    \/ BuildMarker
    \/ BuildAdapt
    \/ BuildGlobalRefine
    \/ LoadBalanceWeighted
    \/ SetMarker
    \/ CommMarker

SpecMarker == Init /\ [][NextMarker]_vars

\* C31: when commMarker has completed on the ranks of a partitioned tree
\* every ghost has the marker its source had on the owning rank when the
\* exchange started, the i-th ghost received from a sender being the i-th
\* octant of the sender's borders for the receiver; nothing else of the
\* ghosts has changed, and the value returned on a rank is true exactly
\* when a marker of one of its ghosts has changed.
C31_CommMarker ==
    [][(call'.op = "commMarker")
          => \A r \in Ranks :
                /\ Len(ghosts'[r]) = Len(ghosts[r])
                /\ \A g \in 1 .. Len(ghosts[r]) :
                      /\ ghosts'[r][g] =
                            [ghosts[r][g] EXCEPT
                                !.marker = ghosts'[r][g].marker]
                      /\ globalIdxGhosts[r][g] < Len(GlobalOctants(PT))
                      /\ ghosts'[r][g].marker =
                            GlobalOctants(PT)[globalIdxGhosts[r][g] + 1].marker
                /\ \A s \in Ranks \ {r} :
                      LET b == IF r \in DOMAIN bordersPerProc[s]
                               THEN bordersPerProc[s][r] ELSE <<>>
                          from == GhostsFrom(r, s)
                      IN /\ Len(from) = Len(b)
                         /\ \A i \in 1 .. Len(b) :
                               ghosts'[r][from[i]].marker =
                                   octants[s][b[i] + 1].marker
                /\ call'.ret[r] <=>
                      \E g \in 1 .. Len(ghosts[r]) :
                          ghosts'[r][g].marker # ghosts[r][g].marker
      ]_vars

\* an exchange that has changed a ghost marker on one rank and none on
\* another rank that has ghosts
C31_Witness ==
    /\ call.op = "commMarker"
    /\ \E r, q \in Ranks :
          /\ call.ret[r]
          /\ \E g \in 1 .. Len(ghosts[r]) : ghosts[r][g].marker # 0
          /\ ~call.ret[q]
          /\ ghosts[q] # <<>>

\* ---------------------------------------------- the balance of markers
SettleMarkers ==
    /\ Ready
    /\ \E t \in {settleMarkers(PT)} : Install(t)
    /\ call' = Call("settleMarkers", FALSE, FALSE)
    /\ UNCHANGED <<stream, nsets, ndumps, nbalances>>

\* getPreMarker(idx) on a rank; ret holds the marker returned
GetPreMarker ==
    /\ Ready
    /\ \E p \in SetterRanks : \E idx \in 0 .. (Len(octants[p]) - 1) :
          \E r \in {getPreMarker(PT, p, idx)} :
              /\ Install(r.t)
              /\ call' = [Call("getPreMarker", r.err, FALSE) EXCEPT
                             !.ret = <<p, idx, r.marker>>]
    /\ UNCHANGED <<stream, nsets, ndumps, nbalances>>

\* a tree is refined, partitioned and marked, and its markers are balanced
NextSettle ==
    \/ BuildMarker
    \/ BuildAdapt
    \/ BuildGlobalRefine
    \/ LoadBalance
    \/ SetMarker
    \/ Preadapt
    \/ SettleMarkers
    \/ GetPreMarker

SpecSettle == Init /\ [][NextSettle]_vars

\* the octants of the two lists differ in their markers at most
SameButMarkers(a, b) ==
    /\ Len(a) = Len(b)
    /\ \A i \in 1 .. Len(a) : b[i] = [a[i] EXCEPT !.marker = b[i].marker]

\* the step leaves all of the tree but the markers and last_op as it is
OnlyMarkers ==
    /\ \A p \in Ranks :
          /\ SameButMarkers(octants[p], octants'[p])
          /\ SameButMarkers(ghosts[p], ghosts'[p])
    /\ UNCHANGED <<globalIdxGhosts, bordersPerProc, partitionFirstDesc,
                   partitionLastDesc, partitionRangeGlobalIdx,
                   partitionRangeGlobalIdx0, globalNumOctants, maxDepth,
                   serial, nofGhostLayers, balanceCodim, mapIdx,
                   firstGhostBros, lastGhostBros, undefined, dim,
                   octreeDim>>
    /\ lastOp' = IF call'.op = "preadapt" THEN OP_PRE_ADAPT ELSE lastOp

NotLowered(a, b) ==
    \A i \in 1 .. Len(a) : b[i].marker >= a[i].marker

C33_GetPreMarkerPreadapts ==
    [][(call'.op = "getPreMarker")
          => /\ ~call'.err
             /\ lastOp' = OP_PRE_ADAPT
             /\ call'.ret[3] =
                   preadapt(PT).octants[call'.ret[1]][call'.ret[2] + 1].marker
      ]_vars

\* C38: a balance codimension c in 1..dim set with setBalanceCodimension
\* before dump is the value getBalanceCodimension() returns after the
\* restore of that snapshot.
C38_CodimensionRestored ==
    [][(call'.op = "restore" /\ ~call'.err)
          => balanceCodim' = stream.balanceCodim]_vars

\* ------------------------------------------- adapt after preadapt
\* adapt on a partitioned tree whose markers have been set
MarkedAdapt ==
    /\ Ready
    /\ ~serial
    /\ \E map \in BOOLEAN :
         AdaptFamily(adapt(PT, map), "adapt", map, MaxOctantsDeep)
    /\ UNCHANGED nsets

\* a tree is refined, partitioned and marked, then adapted with or without
\* a preadapt before
NextPreadapt ==
    \/ BuildMarker
    \/ BuildAdapt
    \/ BuildGlobalRefine
    \/ LoadBalance
    \/ SetMarker
    \/ Preadapt
    \/ MarkedAdapt

SpecPreadapt == Init /\ [][NextPreadapt]_vars

\* C40: from every state, preadapt() followed by adapt(map) leaves the same
\* owned octants, markers, ghosts, partition registry, mapping and last
\* operation as adapt(map) alone, and adapt returns the same value on every
\* rank: the markers are balanced once in both, adapt skipping the balance
\* only after preadapt.
C40_PreadaptThenAdapt ==
    Ready =>
        \A pre \in {preadapt(PT)} :
            /\ \A map \in BOOLEAN : adapt(pre, map) = adapt(PT, map)
            /\ adaptDone(pre) = adaptDone(PT)

\* a partitioned tree, not yet preadapted, in which the balance of the
\* markers raises a marker on a rank other than the one where the marker has
\* been set, and which adapt then refines
C40_Witness ==
    /\ Ready
    /\ ~serial
    /\ lastOp # OP_PRE_ADAPT
    /\ \A pre \in {preadapt(PT)} :
          /\ Cardinality({p \in Ranks :
                \E i \in 1 .. Len(octants[p]) :
                    octants[p][i].marker > 0}) = 1
          /\ Cardinality({p \in Ranks :
                \E i \in 1 .. Len(pre.octants[p]) :
                    pre.octants[p][i].marker > 0}) >= 2
          /\ \A a \in {adapt(pre, TRUE)} :
                /\ a.lastOp = OP_ADAPT_MAPPED
                /\ Len(GlobalOctants(a)) >= Len(GlobalOctants(PT)) + 6

\* ------------------------------------- the fixed point of the markers
\* every ghost carries the marker of its source
GhostMarkersSynced(t) ==
    \A r \in Ranks : \A g \in 1 .. Len(t.ghosts[r]) :
        /\ t.globalIdxGhosts[r][g] < Len(GlobalOctants(t))
        /\ t.ghosts[r][g].marker =
              GlobalOctants(t)[t.globalIdxGhosts[r][g] + 1].marker

\* no owned octant has a neighbour, owned or ghost, whose level after the
\* adaption would exceed its own by more than one
NoRaiseRequired(t) ==
    \A p \in Ranks :
        \A mk \in {[i \in 1 .. Len(t.octants[p]) |->
                       t.octants[p][i].marker]} :
            BalanceSweep(t.octants[p], t.ghosts[p], t.balanceCodim, FALSE,
                         TRUE, mk, 1 .. Len(t.octants[p])) = mk

\* C36: when balance21 has returned on a partitioned tree, whatever the
\* operations before it, the markers are at a global fixed point: every
\* ghost has the marker of its owner and no owned octant of any rank still
\* requires a raise of its marker because of an owned or a ghost neighbour.
C36_MarkersFixedPoint ==
    (call.op \in {"preadapt", "settleMarkers"} /\ ~serial /\ ~undefined)
        => GhostMarkersSynced(PT) /\ NoRaiseRequired(PT)

\* C37: for every tree and tentative partition the family-compact
\* correction reads only ranks and local octants that exist, and every
\* entry of the corrected partition lies between 0 and the global number of
\* octants, without wraparound of the 32-bit unsigned entries.
C37_FamilyPartitionInRange ==
    (call.op = "loadBalanceFamily")
        => /\ ~call.bad
           /\ \A i \in 1 .. Len(call.partition) :
                 call.partition[i] \in 0 .. call.count

\* ------------------------------------------------- the communicator
\* the communicators handed to the tree: the processes keep their ranks or
\* the first two processes have exchanged them
RankMaps ==
    {[p \in Ranks |-> p],
     [p \in Ranks |-> IF p = 0 THEN 1 ELSE IF p = 1 THEN 0 ELSE p]}
UserComms == {[id |-> i, rank |-> r] : i \in 1 .. MaxComms, r \in RankMaps}

\* replaceComm on every process; the registry kept is the one of process
\* p, and the tree is left undefined when the registries of two processes
\* differ
ReplaceComm ==
    /\ Ready
    /\ \E c \in UserComms : \E p \in Ranks :
          \E r \in {replaceComm(PT, c, p)} :
              /\ Install([r.t EXCEPT !.undefined =
                            @ \/ \E q \in Ranks :
                                    replaceComm(PT, c, q).t # r.t])
              /\ call' = Call("replaceComm", r.err, FALSE)
    /\ UNCHANGED <<stream, nsets, ndumps, nbalances>>

FreeComm ==
    /\ Ready
    /\ isCommSet(PT)
    /\ Install(freeComm(PT))
    /\ call' = Call("freeComm", FALSE, FALSE)
    /\ UNCHANGED <<stream, nsets, ndumps, nbalances>>

\* a load balance needs the communicator
CommLoadBalance ==
    /\ isCommSet(PT)
    /\ LoadBalanceUniform

NextComm ==
    \/ BuildMarker
    \/ BuildAdapt
    \/ BuildGlobalRefine
    \/ CommLoadBalance
    \/ ReplaceComm
    \/ FreeComm

SpecComm == Init /\ [][NextComm]_vars

\* C39: replaceComm with an equivalent communicator on a partitioned tree
\* changes the communicator only: the first and last descendants, the
\* global index ranges (current and previous), the owned octants, the ghosts
\* and the last operation are after the call what they were before; and a
\* replaceComm that raises an error changes nothing.
C39_ReplaceCommKeepsTree ==
    [][(call'.op = "replaceComm")
          => IF call'.err THEN UNCHANGED tree
             ELSE ~serial =>
                    UNCHANGED <<partitionFirstDesc, partitionLastDesc,
                                partitionRangeGlobalIdx,
                                partitionRangeGlobalIdx0, octants, ghosts,
                                lastOp>>
      ]_vars

\* ------------------------------------ the halo rebuild, rank by rank
\* computeGhostHalo between its suspension points.  After setPboundGhosts
\* every rank runs on its own:
\*   enter   the early return for one layer, the initial accretions
\*   reduce  the foreign accretions are ready, the rank waits in the
\*           all-reduction of the exchange flag
\*   recv    sends and receives are started, the rank waits for a message
\*   wait    all messages received, the rank waits for its sends
\*   done    the rank has left the last exchange
\* round[p] counts the calls of exchangeGhostHaloAccretions of rank p,
\* sent[p][n] are the foreign accretions of its n-th call by receiver,
\* dec[p][n] is the flag it has read from the n-th all-reduction, got[p]
\* holds <<s, m, n>> for the message of the m-th call of s received by p in
\* its n-th call.
MaxExchanges == 1

\* the foreign accretions of rank p by receiver
ForeignByRank(t, acc, p) ==
    [q \in {r \in Ranks : ForeignAccretions(t, acc, p, r) # <<>>} |->
        ForeignAccretions(t, acc, p, q)]

\* the flag of the n-th exchange as only rank p sees it
exchangeNeededLocal(h, p, n) == DOMAIN h.sent[p][n] # {}

\* the flag of the n-th exchange after MPI_Allreduce with MPI_LOR
exchangeNeeded(h, p, n) == \E s \in Ranks : DOMAIN h.sent[s][n] # {}

\* rank s has started the sends of its m-th exchange
Started(h, s, m) == Len(h.dec[s]) >= m /\ h.dec[s][m]

\* the messages for rank p that are on their way
InFlight(h, p) ==
    {sm \in Ranks \X (1 .. MaxLayers) :
        /\ Started(h, sm[1], sm[2])
        /\ p \in DOMAIN h.sent[sm[1]][sm[2]]
        /\ \A g \in h.got[p] : <<g[1], g[2]>> # sm}

\* the number of receives discoverRecvs finds for the n-th exchange of p
RecvCount(h, p, n) ==
    Cardinality({s \in Ranks : p \in DOMAIN h.sent[s][n]})

\* rank p calls exchangeGhostHaloAccretions with the accretions accp
EnterExchange(t, h, p, accp) ==
    With([h.acc EXCEPT ![p] = accp], LAMBDA acc :
        [h EXCEPT !.acc = acc,
                  !.round[p] = @ + 1,
                  !.sent[p] = Append(@, ForeignByRank(t, acc, p)),
                  !.pc[p] = "reduce"])

\* rank p returns from its exchange: the rebuild goes on with the growth
\* and the next exchange, or the last exchange is over
LeaveExchange(t, h, p) ==
    IF h.round[p] >= t.nofGhostLayers
    THEN {[h EXCEPT !.pc[p] = "done"]}
    ELSE {EnterExchange(t, h, p, a) : a \in GrowRank(t, p, h.acc[p], FALSE)}

\* the steps rank p can take
HaloSteps(t, h, p) ==
    CASE h.pc[p] = "enter" ->
            IF t.nofGhostLayers <= 1 THEN {[h EXCEPT !.pc[p] = "done"]}
            ELSE {EnterExchange(t, h, p,
                                initializeGhostHaloAccretions(t)[p])}
      [] h.pc[p] = "reduce" ->
            IF \E s \in Ranks : Len(h.sent[s]) < h.round[p] THEN {}
            ELSE With([h EXCEPT !.dec[p] =
                          Append(@, exchangeNeeded(h, p, h.round[p]))],
                      LAMBDA d :
                         IF ~d.dec[p][h.round[p]] THEN LeaveExchange(t, d, p)
                         ELSE IF RecvCount(d, p, h.round[p]) = 0
                         THEN {[d EXCEPT !.pc[p] = "wait"]}
                         ELSE {[d EXCEPT !.pc[p] = "recv"]})
      [] h.pc[p] = "recv" ->
            {[h EXCEPT
                 !.acc[p] = RecvMsg(@, h.sent[sm[1]][sm[2]][p], 1),
                 !.got[p] = @ \cup {<<sm[1], sm[2], h.round[p]>>},
                 !.pc[p] =
                     IF Cardinality({g \in h.got[p] : g[3] = h.round[p]}) + 1
                            >= RecvCount(h, p, h.round[p])
                     THEN "wait" ELSE "recv"] :
               sm \in {x \in InFlight(h, p) :
                          \A y \in InFlight(h, p) :
                              y[1] = x[1] => x[2] <= y[2]}}
      [] h.pc[p] = "wait" ->
            IF \A q \in DOMAIN h.sent[p][h.round[p]] :
                   Started(h, q, h.round[p])
            THEN LeaveExchange(t, h, p)
            ELSE {}
      [] OTHER -> {}

\* the weight vectors of n octants with MaxOnes heavy octants, the first
\* octant among them
HeavyFirst(n) ==
    {w \in Weights(n) : SumSeq(w) = MaxOnes /\ w[1] = 1}

\* a load balance of an adapted tree, uniform or weighted, counted; no
\* operation is called while the ranks are inside a rebuild
ExchangeLoadBalance ==
    /\ Ready
    /\ call.op # "haloRebuild"
    /\ nsets = 0
    /\ nbalances < MaxExchanges
    /\ nbalances' = nbalances + 1
    /\ \E w \in {<<>>} \cup HeavyFirst(Len(GlobalOctants(PT))) :
          Balance(loadBalance(PT, w, TRUE), "loadBalance",
                  Tentative(PT, w), 0)

\* computeGhostHalo is entered on every rank: the first layer is built
HaloBegin ==
    /\ Ready
    /\ ~serial
    /\ call.op \in LBOps
    /\ Install(setPboundGhosts(PT))
    /\ call' = [Call("haloRebuild", FALSE, FALSE) EXCEPT
                   !.halo = [pc |-> [p \in Ranks |-> "enter"],
                             round |-> [p \in Ranks |-> 0],
                             acc |-> [p \in Ranks |-> <<>>],
                             sent |-> [p \in Ranks |-> <<>>],
                             dec |-> [p \in Ranks |-> <<>>],
                             got |-> [p \in Ranks |-> {}]]]
    /\ UNCHANGED <<stream, nsets, ndumps, nbalances>>

HaloStep(p) ==
    /\ call.op = "haloRebuild"
    /\ \E h \in HaloSteps(PT, call.halo, p) :
          call' = [call EXCEPT !.halo = h]
    /\ UNCHANGED <<tree, stream, nsets, ndumps, nbalances>>

\* every rank has left the last exchange: the sources are extracted and
\* the ghosts are built
HaloEnd ==
    /\ call.op = "haloRebuild"
    /\ \A p \in Ranks : call.halo.pc[p] = "done"
    /\ IF nofGhostLayers <= 1 THEN UNCHANGED tree
       ELSE \E b \in extractSources(PT, call.halo.acc, TRUE) :
               Install([buildGhostOctants(PT, b, call.halo.acc) EXCEPT
                           !.undefined =
                               @ \/ HaloUndefined(PT, call.halo.acc, b)])
    /\ call' = [call EXCEPT !.op = "computeGhostHalo"]
    /\ UNCHANGED <<stream, nsets, ndumps, nbalances>>

\* the steps of a rebuild in progress
HaloProgress == (\E p \in Ranks : HaloStep(p)) \/ HaloEnd

NextExchange ==
    \/ BuildMarker
    \/ BuildAdapt
    \/ BuildGlobalRefine
    \/ SetNofGhostLayers
    \/ ExchangeLoadBalance
    \/ HaloBegin
    \/ HaloProgress

\* the ranks are running processes: while one of them can go on with the
\* rebuild, one of them does
SpecExchange ==
    /\ Init
    /\ [][NextExchange]_vars
    /\ WF_vars(HaloProgress)

\* the exchanges a rebuild of width k performs on every rank
ExchangeRounds(k) == IF k <= 1 THEN 0 ELSE k

\* what holds of the ranks at every point of a rebuild
HaloCollective(t, h) ==
    \A p \in Ranks :
        \* the number of exchanges, and the same flag read in each of them
        /\ h.round[p] <= ExchangeRounds(t.nofGhostLayers)
        /\ h.pc[p] = "done" => h.round[p] = ExchangeRounds(t.nofGhostLayers)
        /\ \A q \in Ranks :
              \A n \in 1 .. Min(Len(h.dec[p]), Len(h.dec[q])) :
                  h.dec[p][n] = h.dec[q][n]
        \* a message is received in the exchange in which it has been sent,
        \* and a rank that has left an exchange has received all of them
        /\ \A g \in h.got[p] : g[2] = g[3]
        /\ \A n \in 1 .. h.round[p] :
              (n < h.round[p] \/ h.pc[p] \in {"wait", "done"})
                 => \A s \in Ranks :
                       (h.dec[p][n] /\ p \in DOMAIN h.sent[s][n])
                          => <<s, n, n>> \in h.got[p]
        \* the accretions a rank holds
        /\ \A i \in 1 .. Len(h.acc[p]) :
              /\ h.acc[p][i].targetRank # p
              /\ \A g \in DOMAIN h.acc[p][i].population :
                    /\ isInternal(t.partitionRangeGlobalIdx, p, g)
                    /\ getLocalIdx(t.partitionRangeGlobalIdx, p, g)
                           < Len(t.octants[p])

HaloCollectiveAlways ==
    (call.op \in {"haloRebuild", "computeGhostHalo"})
        => /\ HaloCollective(PT, call.halo)
           /\ call.op = "computeGhostHalo"
                 => \A p \in Ranks : InFlight(call.halo, p) = {}

====
